---- MODULE Spec2Model ----
(***************************************************************************)
(* Network control plane of the daemon: the driver table, the persistent   *)
(* network registry, the simplebridge driver as the registry sees it, and  *)
(* the coupling of endpoints to containers.                                *)
(***************************************************************************)
EXTENDS Integers, Sequences, FiniteSets, TLC

(* ------------------------------ bounds --------------------------------- *)

\* Size of the pool the random ID generator draws from.
MaxIds == 2
\* Live networks in the registry.
MaxNets == 2
\* Endpoints in one container's list.
MaxEndpoints == 1
\* Highest address of the (small) bridge subnet; address 0 is the subnet's base.
MaxAddr == 1
\* Goroutines that call into the package at the same time.
MaxProcs == 2
\* Plugins that can register a network driver.
MaxPlugins == 4
\* Highest address of the bridge subnet of the host model; address 0 is the
\* subnet's base.
MaxHostAddr == 3
\* The bytes of an IPv4 address are 0..MaxOctet and a few large ones.
MaxOctet == 2

(* ------------------------------ values --------------------------------- *)

\* An empty map[string]string.
NoLabels == [k \in {} |-> ""]

\* Label maps a caller passes to NetworkCreate.
LabelSets == {NoLabels, ("BridgeIface" :> "br0")}

\* IDs of the containers the daemon knows; "cX" is an ID it does not know.
Containers == {"c1"}
ContainerIDs == Containers \cup {"cX"}

\* Driver names callers ask for: the built-in one and one nobody registered.
DriverNames == {"simplebridge", "missing"}

\* The result of a driver lookup that found nothing.
NoDriver == "none"

\* A nil *Network.
NilNetwork == [ID |-> "", Name |-> "", Driver |-> "", Labels |-> NoLabels, State |-> NoLabels]

IdOf(i) == "id" \o ToString(i)
GenName(i) == "name" \o ToString(i)

\* The names namesgenerator.GetRandomName can return.
GenNames == {GenName(i) : i \in 1..MaxNets}

\* Addresses of the bridge subnet; NetBase is bridgeIPv4Network.IP.
Addrs == 0..MaxAddr
NetBase == 0

\* The bridge subnet of the host model, the addresses a configuration gives
\* the bridge, and the fixed sub-range for endpoints.
BridgeSubnet == 0..MaxHostAddr
BridgeIPs == {1, 2}
FixedSubnet == {a \in BridgeSubnet : a >= 2}
\* bridgeIPv6 = "fe80::1/64"
BridgeIPv6 == "fe80::1"

With(f, k, v) == [x \in DOMAIN f \cup {k} |-> IF x = k THEN v ELSE f[x]]
Without(f, k) == [x \in DOMAIN f \ {k} |-> f[x]]

(* ------------------------------- state --------------------------------- *)

VARIABLES
    drivers,     \* the package-level driver table: name -> driver
    networks,    \* NetworkRegistry.networks: ID -> Network
    persisted,   \* the files under NetworkRegistry.path: ID -> decoded record
    bridgeNets,  \* simpleBridgeDriver.networks: ID -> runtime state of a bridge network
    containers,  \* container ID -> [running, Endpoints]
    phase,       \* the daemon: "starting" before Restore, "running" after it,
                 \* "failed" when Restore returned an error
    mutex,       \* NetworkRegistry's sync.Mutex: the goroutine holding it, 0 if none
    pc,          \* goroutine -> the operation it runs and the instruction it is at
    host,        \* the host's network state: bridge interface, firewall, forwarding
    bridge,      \* the simplebridge.Network object the bridge driver holds
    probe        \* the last call of a function without state: name, input, result

vars == <<drivers, networks, persisted, bridgeNets, containers, phase, mutex, pc, host, bridge,
         probe>>

\* The goroutines, for the specifications that follow calls one at a time.
threads == <<mutex, pc>>

\* The host and the bridge network object, for the specifications that leave
\* the bridge driver's work on the host to an outcome.
wiring == <<host, bridge>>

\* The calls of functions without state, for the specifications that do not
\* look at them.
calls == <<probe>>

\* What the operations of a running registry never touch.
others == <<phase, threads, wiring, calls>>

\* No such function has been called.
NoProbe == [fn |-> "none", in |-> << >>, out |-> << >>]
NoCalls == probe = NoProbe

\* A goroutine that runs no operation of this package.
Idle == [op |-> "idle", at |-> 0]

\* No goroutine is inside the package.
NoThreads == mutex = 0 /\ pc = [p \in 1..MaxProcs |-> Idle]

\* The firewall rules Network.setupIPTables installs; the masquerade rule
\* names the bridge's address.
Masq(a) == "masquerade " \o ToString(a)
Rules == {Masq(a) : a \in BridgeIPs} \cup {"accept", "drop", "outgoing", "established"}

\* A host without the bridge interface, without firewall rules and chains,
\* forwarding off.
NoIface == [present |-> FALSE, v4 |-> NetBase, v6 |-> {}]
NoHost == [iface |-> NoIface, rules |-> [r \in Rules |-> 0], chains |-> {}, forward |-> FALSE]

\* The bridge driver holds no network object.
NoBridge == [present |-> FALSE, bridgeIPv4Addr |-> NetBase, range |-> {}, allocated |-> {},
             ifaces |-> [k \in {} |-> 0], plugged |-> {}]

NoWiring == host = NoHost /\ bridge = NoBridge

(* ---------------------------- driver table ----------------------------- *)

GetNetworkDriver(tbl, name) == IF name \in DOMAIN tbl THEN tbl[name] ELSE NoDriver

(* ------------------------------ registry ------------------------------- *)

\* ExistsWithName that finds no name taken.
ExistsWithName_never(reg, name) == FALSE

\* NetworkRegistry.ExistsWithName.
ExistsWithName(reg, name) == \E id \in DOMAIN reg : reg[id].Name = name

\* Get that answers with some live network when nothing matches.
Get_anyway(reg, nameOrId) ==
    IF nameOrId \in DOMAIN reg THEN reg[nameOrId]
    ELSE IF DOMAIN reg # {}
         THEN reg[CHOOSE id \in DOMAIN reg : TRUE]
         ELSE NilNetwork

\* Get that looks for the name before it looks for the ID.
Get_nameFirst(reg, nameOrId) ==
    IF \E id \in DOMAIN reg : reg[id].Name = nameOrId
    THEN reg[CHOOSE id \in DOMAIN reg : reg[id].Name = nameOrId]
    ELSE IF nameOrId \in DOMAIN reg THEN reg[nameOrId]
         ELSE NilNetwork

\* NetworkRegistry.Get.
Get(reg, nameOrId) ==
    IF nameOrId \in DOMAIN reg THEN reg[nameOrId]
    ELSE IF \E id \in DOMAIN reg : reg[id].Name = nameOrId
         THEN reg[CHOOSE id \in DOMAIN reg : reg[id].Name = nameOrId]
         ELSE NilNetwork

\* The endpoints in the list of container c.
EndpointsOf(c) == {containers[c].Endpoints[i] : i \in 1..Len(containers[c].Endpoints)}

\* Every string that a registry, its files, a bridge table and the containers'
\* lists hold as an ID or a name.
UsedBy(reg, store, bn) ==
    DOMAIN reg \cup DOMAIN store \cup DOMAIN bn
    \cup {reg[i].Name : i \in DOMAIN reg}
    \cup UNION {{e.ID, e.Network} : e \in UNION {EndpointsOf(c) : c \in Containers}}
    \cup UNION {DOMAIN bn[i].ifaces : i \in DOMAIN bn}

Used == UsedBy(networks, persisted, bridgeNets)

\* stringid.GenerateRandomID: a random string, taken to collide with nothing
\* the state holds; of the pool's unused strings the first stands for all.
\* The generator itself never fails: with the pool used up the string is one
\* from outside the pool (the actions that create stop at CanGenerateID).
RandomID(used) ==
    IF \E i \in 1..MaxIds : IdOf(i) \notin used
    THEN IdOf(CHOOSE i \in 1..MaxIds :
                 IdOf(i) \notin used /\ \A j \in 1..(i - 1) : IdOf(j) \in used)
    ELSE IdOf(MaxIds + 1)

CanGenerateID == \E i \in 1..MaxIds : IdOf(i) \notin Used
GenerateRandomID == RandomID(Used)

(* --------------------- address allocator (contract) -------------------- *)

\* RequestIP(subnet, nil): the addresses the allocator may hand out.
RequestIP(allocated) == Addrs \ allocated

\* ReleaseIP(subnet, ip).
ReleaseIP(allocated, ip) == allocated \ {ip}

(* --------------------------- simplebridge ------------------------------ *)

\* The runtime table of a bridge network: endpoint ID -> address.
NoIfaces == [k \in {} |-> 0]

\* The serialized configuration the bridge driver keeps in Network.State; the
\* registry never looks inside it.
BridgeState == "bridge-config"

\* simplebridge.NewNetwork followed by Network.Setup: a fresh allocator and an
\* empty table, with bridgeIPv4Network.IP requested from the allocator.
NewBridgeNet == [ifaces |-> NoIfaces, allocated |-> {NetBase}]

\* simpleBridgeDriver.Setup; ok: building the configuration and setting up
\* the host both succeed.
BridgeSetup(bn, net, ok) ==
    IF ~ok
    THEN [err |-> "SetupFailed", net |-> net, bn |-> bn, calls |-> <<"Setup">>]
    ELSE [err |-> "",
          net |-> [net EXCEPT !.State = With(@, "simplebridge", BridgeState)],
          bn |-> With(bn, net.ID, NewBridgeNet),
          calls |-> <<"Setup">>]

\* simpleBridgeDriver.Destroy; ok: the bridge network's own Destroy succeeds.
BridgeDestroy(bn, net, ok) ==
    IF net.ID \notin DOMAIN bn
    THEN [err |-> "DriverNetworkNotFound", bn |-> bn, calls |-> <<"Destroy">>]
    ELSE [err |-> IF ok THEN "" ELSE "DestroyFailed",
          bn |-> Without(bn, net.ID),
          calls |-> <<"Destroy">>]

\* Network.Allocate(id, nil): no requested address, no requested MAC.
Allocate(bnet, id, ip) ==
    [bnet EXCEPT !.ifaces = With(@, id, ip), !.allocated = @ \cup {ip}]

\* A Release that gives nothing back to the allocator.
Release_noRelease(bnet, id) == bnet

\* Network.Release(id), for an id the table holds.
Release(bnet, id) ==
    [bnet EXCEPT !.allocated = ReleaseIP(@, bnet.ifaces[id])]

(* ------------------------- Network.Setup/Destroy ----------------------- *)

\* The table holds the simplebridge driver as "bridge"; every other driver in
\* it is a netDriver that forwards the call to its plugin.

\* netDriver.Setup; ok: the plugin answers the call with success.
RemoteSetup(bn, net, ok) ==
    [err |-> IF ok THEN "" ELSE "PluginError", net |-> net, bn |-> bn, calls |-> <<"Setup">>]

\* netDriver.Destroy.
RemoteDestroy(bn, net, ok) ==
    [err |-> IF ok THEN "" ELSE "PluginError", bn |-> bn, calls |-> <<"Destroy">>]

\* Network.Setup handing the network to the bridge driver whatever driver it names.
NetSetup_noLookup(tbl, bn, net, ok) == BridgeSetup(bn, net, ok)

NetSetup(tbl, bn, net, ok) ==
    LET d == GetNetworkDriver(tbl, net.Driver) IN
    IF d = NoDriver
    THEN [err |-> "DriverNotFound", net |-> net, bn |-> bn, calls |-> << >>]
    ELSE IF d = "bridge" THEN BridgeSetup(bn, net, ok)
    ELSE RemoteSetup(bn, net, ok)

NetDestroy(tbl, bn, net, ok) ==
    LET d == GetNetworkDriver(tbl, net.Driver) IN
    IF d = NoDriver
    THEN [err |-> "DriverNotFound", bn |-> bn, calls |-> << >>]
    ELSE IF d = "bridge" THEN BridgeDestroy(bn, net, ok)
    ELSE RemoteDestroy(bn, net, ok)

(* ------------------------ registry persistence ------------------------- *)

\* Add with the record indexed under its Name instead of its ID.
Add_byName(reg, store, net, ok) ==
    IF ~ok
    THEN [err |-> "SaveFailed", reg |-> reg, store |-> store]
    ELSE [err |-> "", reg |-> With(reg, net.Name, net), store |-> With(store, net.ID, net)]

\* NetworkRegistry.Add; ok: the host lets the record's file be written.
Add(reg, store, net, ok) ==
    IF ~ok
    THEN [err |-> "SaveFailed", reg |-> reg, store |-> store]
    ELSE [err |-> "", reg |-> With(reg, net.ID, net), store |-> With(store, net.ID, net)]

\* Remove that drops the in-memory entry before it removes the file.
Remove_memoryFirst(reg, store, id, ok) ==
    IF ~ok \/ id \notin DOMAIN store
    THEN [err |-> "RemoveFailed", reg |-> Without(reg, id), store |-> store]
    ELSE [err |-> "", reg |-> Without(reg, id), store |-> Without(store, id)]

\* NetworkRegistry.Remove; ok: the host lets the record's file be removed.
Remove(reg, store, id, ok) ==
    IF ~ok \/ id \notin DOMAIN store
    THEN [err |-> "RemoveFailed", reg |-> reg, store |-> store]
    ELSE [err |-> "", reg |-> Without(reg, id), store |-> Without(store, id)]

(* ---------------------------- NetworkCreate ---------------------------- *)

\* NameFor with the generated name taken without asking whether it is live.
NameFor_unchecked(reg, name) ==
    IF name = "" THEN GenNames ELSE {name}

\* The name NetworkCreate goes on with: the given one, or a generated one
\* that no live network has.
NameFor(reg, name) ==
    IF name = "" THEN {g \in GenNames : ~ExistsWithName(reg, g)} ELSE {name}

\* The environment's part in one call: whether the host lets the driver do
\* its work (drv) and lets the registry write or remove the record's file (io).
Envs == {[drv |-> TRUE, io |-> TRUE], [drv |-> FALSE, io |-> TRUE], [drv |-> TRUE, io |-> FALSE]}

\* The body of NetworkCreate once the name is settled, on a registry reg with
\* files store and bridge table bn, when GenerateRandomID answers id.
CreateIn(reg, store, bn, id, name, driver, labels, env) ==
    IF ExistsWithName(reg, name)
    THEN [err |-> "NameConflict", ret |-> "", reg |-> reg, store |-> store,
          bn |-> bn, calls |-> << >>]
    ELSE
      LET net == [ID |-> id, Name |-> name, Driver |-> driver,
                  Labels |-> labels, State |-> NoLabels]
          su == NetSetup(drivers, bn, net, env.drv)
          ad == Add(reg, store, su.net, env.io)
      IN IF su.err # ""
         THEN [err |-> su.err, ret |-> "", reg |-> reg, store |-> store,
               bn |-> su.bn, calls |-> su.calls]
         ELSE [err |-> ad.err, ret |-> IF ad.err = "" THEN net.ID ELSE "",
               reg |-> ad.reg, store |-> ad.store, bn |-> su.bn, calls |-> su.calls]

\* The same on the current state.
CreateResult(name, driver, labels, env) ==
    CreateIn(networks, persisted, bridgeNets, GenerateRandomID, name, driver, labels, env)

\* The model follows a call only while the registry and the ID pool have room.
CreateEnabled == Cardinality(DOMAIN networks) < MaxNets /\ CanGenerateID

\* One call of NetworkCreate that goes on with the name gen.
CreateStep(gen, driver, labels, env) ==
    /\ CreateEnabled
    /\ LET r == CreateResult(gen, driver, labels, env) IN
         /\ networks' = r.reg
         /\ persisted' = r.store
         /\ bridgeNets' = r.bn
    /\ UNCHANGED <<drivers, containers, others>>

NetworkCreate(name, driver, labels, env) ==
    \E gen \in NameFor(networks, name) : CreateStep(gen, driver, labels, env)

(* ---------------------------- NetworkDestroy --------------------------- *)

DestroyResult(id, env) ==
    LET net == Get(networks, id) IN
    IF net = NilNetwork
    THEN [err |-> "NetworkNotFound", reg |-> networks, store |-> persisted,
          bn |-> bridgeNets, calls |-> << >>]
    ELSE
      LET de == NetDestroy(drivers, bridgeNets, net, env.drv)
          rm == Remove(networks, persisted, net.ID, env.io)
      IN IF de.err # ""
         THEN [err |-> de.err, reg |-> networks, store |-> persisted,
               bn |-> de.bn, calls |-> de.calls]
         ELSE [err |-> rm.err, reg |-> rm.reg, store |-> rm.store,
               bn |-> de.bn, calls |-> de.calls]

NetworkDestroy(id, env) ==
    LET r == DestroyResult(id, env) IN
    /\ networks' = r.reg
    /\ persisted' = r.store
    /\ bridgeNets' = r.bn
    /\ UNCHANGED <<drivers, containers, others>>

(* ------------------------ endpoints of containers ---------------------- *)

\* Container.GetEndpoint: the index of the first endpoint with that ID, 0 if none.
GetEndpoint(eps, endpointID) ==
    IF \E i \in 1..Len(eps) : eps[i].ID = endpointID
    THEN CHOOSE i \in 1..Len(eps) :
           eps[i].ID = endpointID /\ \A j \in 1..(i - 1) : eps[j].ID # endpointID
    ELSE 0

\* Removal that fills the gap with the last endpoint.
RemoveAt_swap(eps, i) ==
    [j \in 1..(Len(eps) - 1) |-> IF j = i THEN eps[Len(eps)] ELSE eps[j]]

\* eps[:i+copy(eps[i:], eps[i+1:])] for the (1-based) index i.
RemoveAt(eps, i) == [j \in 1..(Len(eps) - 1) |-> IF j < i THEN eps[j] ELSE eps[j + 1]]

\* NetworkPlug recording the reference it was given instead of the resolved ID.
PlugResult_byRef(containerID, nameOrId, labels) ==
    IF containerID \notin DOMAIN containers
    THEN [err |-> "ContainerNotFound", ret |-> "", cs |-> containers, calls |-> << >>]
    ELSE IF containers[containerID].running
    THEN [err |-> "ContainerRunning", ret |-> "", cs |-> containers, calls |-> << >>]
    ELSE
      LET net == Get(networks, nameOrId)
          endpoint == [ID |-> GenerateRandomID, Network |-> nameOrId, Labels |-> labels]
      IN IF net = NilNetwork
         THEN [err |-> "NetworkNotFound", ret |-> "", cs |-> containers, calls |-> << >>]
         ELSE [err |-> "", ret |-> endpoint.ID,
               cs |-> [containers EXCEPT ![containerID].Endpoints = Append(@, endpoint)],
               calls |-> << >>]

PlugResult(containerID, nameOrId, labels) ==
    IF containerID \notin DOMAIN containers
    THEN [err |-> "ContainerNotFound", ret |-> "", cs |-> containers, calls |-> << >>]
    ELSE IF containers[containerID].running
    THEN [err |-> "ContainerRunning", ret |-> "", cs |-> containers, calls |-> << >>]
    ELSE
      LET net == Get(networks, nameOrId)
          endpoint == [ID |-> GenerateRandomID, Network |-> net.ID, Labels |-> labels]
      IN IF net = NilNetwork
         THEN [err |-> "NetworkNotFound", ret |-> "", cs |-> containers, calls |-> << >>]
         ELSE [err |-> "", ret |-> endpoint.ID,
               cs |-> [containers EXCEPT ![containerID].Endpoints = Append(@, endpoint)],
               calls |-> << >>]

\* The model follows a call only while the lists and the ID pool have room.
PlugEnabled ==
    CanGenerateID /\ \A c \in Containers : Len(containers[c].Endpoints) < MaxEndpoints

NetworkPlug(containerID, nameOrId, labels) ==
    /\ PlugEnabled
    /\ containers' = PlugResult(containerID, nameOrId, labels).cs
    /\ UNCHANGED <<drivers, networks, persisted, bridgeNets, others>>

\* NetworkUnplug that reports success and leaves the endpoint where it is.
UnplugResult_noRemove(containerID, endpointID) ==
    IF containerID \notin DOMAIN containers
    THEN [err |-> "ContainerNotFound", cs |-> containers, calls |-> << >>]
    ELSE IF containers[containerID].running
    THEN [err |-> "ContainerRunning", cs |-> containers, calls |-> << >>]
    ELSE
      LET i == GetEndpoint(containers[containerID].Endpoints, endpointID) IN
      IF i = 0
      THEN [err |-> "EndpointNotFound", cs |-> containers, calls |-> << >>]
      ELSE [err |-> "", cs |-> containers, calls |-> << >>]

\* NetworkUnplug without the check that the container is not running.
UnplugResult_whileRunning(containerID, endpointID) ==
    IF containerID \notin DOMAIN containers
    THEN [err |-> "ContainerNotFound", cs |-> containers, calls |-> << >>]
    ELSE
      LET i == GetEndpoint(containers[containerID].Endpoints, endpointID) IN
      IF i = 0
      THEN [err |-> "EndpointNotFound", cs |-> containers, calls |-> << >>]
      ELSE [err |-> "",
            cs |-> [containers EXCEPT ![containerID].Endpoints = RemoveAt(@, i)],
            calls |-> << >>]

UnplugResult(containerID, endpointID) ==
    IF containerID \notin DOMAIN containers
    THEN [err |-> "ContainerNotFound", cs |-> containers, calls |-> << >>]
    ELSE IF containers[containerID].running
    THEN [err |-> "ContainerRunning", cs |-> containers, calls |-> << >>]
    ELSE
      LET i == GetEndpoint(containers[containerID].Endpoints, endpointID) IN
      IF i = 0
      THEN [err |-> "EndpointNotFound", cs |-> containers, calls |-> << >>]
      ELSE [err |-> "",
            cs |-> [containers EXCEPT ![containerID].Endpoints = RemoveAt(@, i)],
            calls |-> << >>]

NetworkUnplug(containerID, endpointID) ==
    /\ containers' = UnplugResult(containerID, endpointID).cs
    /\ UNCHANGED <<drivers, networks, persisted, bridgeNets, others>>

(* ----------------------- Endpoint.Plug / Endpoint.Unplug --------------- *)

\* simpleBridgeDriver.Plug: the possible outcomes.
BridgePlug(bn, net, e) ==
    IF net.ID \notin DOMAIN bn
    THEN {[err |-> "DriverNetworkNotFound", bn |-> bn, calls |-> <<"Plug">>]}
    ELSE IF RequestIP(bn[net.ID].allocated) = {}
    THEN {[err |-> "AddressExhausted", bn |-> bn, calls |-> <<"Plug">>]}
    ELSE {[err |-> "", bn |-> [bn EXCEPT ![net.ID] = Allocate(@, e.ID, ip)],
           calls |-> <<"Plug">>] : ip \in RequestIP(bn[net.ID].allocated)}

\* An Unplug that succeeds for an endpoint the table does not hold.
BridgeUnplug_lenient(bn, net, e) ==
    IF net.ID \notin DOMAIN bn
    THEN [err |-> "DriverNetworkNotFound", bn |-> bn, calls |-> <<"Unplug">>]
    ELSE IF e.ID \notin DOMAIN bn[net.ID].ifaces
    THEN [err |-> "", bn |-> bn, calls |-> <<"Unplug">>]
    ELSE [err |-> "", bn |-> [bn EXCEPT ![net.ID] = Release(@, e.ID)],
          calls |-> <<"Unplug">>]

\* simpleBridgeDriver.Unplug.
BridgeUnplug(bn, net, e) ==
    IF net.ID \notin DOMAIN bn
    THEN [err |-> "DriverNetworkNotFound", bn |-> bn, calls |-> <<"Unplug">>]
    ELSE IF e.ID \notin DOMAIN bn[net.ID].ifaces
    THEN [err |-> "EndpointUnknown", bn |-> bn, calls |-> <<"Unplug">>]
    ELSE [err |-> "", bn |-> [bn EXCEPT ![net.ID] = Release(@, e.ID)],
          calls |-> <<"Unplug">>]

\* netDriver.Plug and netDriver.Unplug: the plugin answers with success or not.
RemotePlug(bn, net, e) ==
    {[err |-> x, bn |-> bn, calls |-> <<"Plug">>] : x \in {"", "PluginError"}}
RemoteUnplug(bn, net, e) ==
    {[err |-> x, bn |-> bn, calls |-> <<"Unplug">>] : x \in {"", "PluginError"}}

\* Endpoint.Plug: the possible outcomes.
EndpointPlugResults(e) ==
    LET net == Get(networks, e.Network)
        d == GetNetworkDriver(drivers, net.Driver)
    IN IF net = NilNetwork
       THEN {[err |-> "NetworkNotFound", bn |-> bridgeNets, calls |-> << >>]}
       ELSE IF d = NoDriver
       THEN {[err |-> "DriverNotFound", bn |-> bridgeNets, calls |-> << >>]}
       ELSE IF d = "bridge" THEN BridgePlug(bridgeNets, net, e)
       ELSE RemotePlug(bridgeNets, net, e)

\* Endpoint.Unplug: the possible outcomes.
EndpointUnplugResults(e) ==
    LET net == Get(networks, e.Network)
        d == GetNetworkDriver(drivers, net.Driver)
    IN IF net = NilNetwork
       THEN {[err |-> "NetworkNotFound", bn |-> bridgeNets, calls |-> << >>]}
       ELSE IF d = NoDriver
       THEN {[err |-> "DriverNotFound", bn |-> bridgeNets, calls |-> << >>]}
       ELSE IF d = "bridge" THEN {BridgeUnplug(bridgeNets, net, e)}
       ELSE RemoteUnplug(bridgeNets, net, e)

EndpointPlug(c, i) ==
    /\ i \in 1..Len(containers[c].Endpoints)
    /\ \E r \in EndpointPlugResults(containers[c].Endpoints[i]) :
         bridgeNets' = r.bn
    /\ UNCHANGED <<drivers, networks, persisted, containers, others>>

EndpointUnplug(c, i) ==
    /\ i \in 1..Len(containers[c].Endpoints)
    /\ \E r \in EndpointUnplugResults(containers[c].Endpoints[i]) :
         bridgeNets' = r.bn
    /\ UNCHANGED <<drivers, networks, persisted, containers, others>>

(* ------------------------------ environment ---------------------------- *)

\* The container runtime starts or stops a container.
SetRunning(c, b) ==
    /\ containers[c].running # b
    /\ containers' = [containers EXCEPT ![c].running = b]
    /\ UNCHANGED <<drivers, networks, persisted, bridgeNets, others>>

(* ---------------------------- specification ---------------------------- *)

Init ==
    /\ drivers = ("simplebridge" :> "bridge")
    /\ networks = [k \in {} |-> NilNetwork]
    /\ persisted = [k \in {} |-> NilNetwork]
    /\ bridgeNets = [k \in {} |-> NewBridgeNet]
    /\ containers = [c \in Containers |-> [running |-> FALSE, Endpoints |-> << >>]]
    /\ phase = "running"
    /\ NoThreads
    /\ NoCalls
    /\ NoWiring

\* What a caller may type where a network name or ID is expected: the ID or
\* the name of a live network, or a string that may be neither.
NetworkRefs ==
    DOMAIN networks \cup {networks[i].Name : i \in DOMAIN networks}
    \cup {"nope", GenName(1), IdOf(1)}

\* The names a caller may give a new network: none, a plain name, or a
\* string that is the ID of a live network.
NameInputs == {"", GenName(1)} \cup DOMAIN networks

\* What a caller may type where an endpoint ID is expected.
EndpointRefs == {e.ID : e \in UNION {EndpointsOf(c) : c \in Containers}} \cup {"nope"}

Next ==
    \/ \E name \in NameInputs, driver \in DriverNames,
          labels \in LabelSets, env \in Envs :
         NetworkCreate(name, driver, labels, env)
    \/ \E id \in NetworkRefs, env \in Envs : NetworkDestroy(id, env)
    \/ \E c \in ContainerIDs, n \in NetworkRefs : NetworkPlug(c, n, NoLabels)
    \/ \E c \in ContainerIDs, e \in EndpointRefs : NetworkUnplug(c, e)
    \/ \E c \in Containers, i \in 1..MaxEndpoints : EndpointPlug(c, i)
    \/ \E c \in Containers, i \in 1..MaxEndpoints : EndpointUnplug(c, i)
    \/ \E c \in Containers, b \in BOOLEAN : SetRunning(c, b)

\* The daemon has started on an empty registry directory and keeps running.
Spec == Init /\ [][Next]_vars

(* ================================ claims =============================== *)

\* The record rec is the network with this ID, Name, Driver and Labels.
Matches(rec, id, name, driver, labels) ==
    rec.ID = id /\ rec.Name = name /\ rec.Driver = driver /\ rec.Labels = labels

\* C1 as stated: a NetworkCreate that succeeds returning id leaves a registry
\* in which Get(id) and Get(name) both return the record with that ID and the
\* Name, Driver and Labels just created.
C1_GetAfterCreate_AsStated ==
    CreateEnabled =>
      \A name \in NameInputs, driver \in DriverNames, labels \in LabelSets, env \in Envs :
        \A gen \in NameFor(networks, name) :
          LET r == CreateResult(gen, driver, labels, env) IN
          r.err = "" =>
            /\ Matches(Get(r.reg, r.ret), r.ret, gen, driver, labels)
            /\ Matches(Get(r.reg, gen), r.ret, gen, driver, labels)

\* C1, amended: a NetworkCreate that succeeds returning id leaves a registry
\* in which Get(id) returns the record just created; Get(name) returns it too
\* unless name is the ID of another live network, and then Get(name) returns
\* that other network.
C1_GetAfterCreate ==
    CreateEnabled =>
      \A name \in NameInputs, driver \in DriverNames, labels \in LabelSets, env \in Envs :
        \A gen \in NameFor(networks, name) :
          LET r == CreateResult(gen, driver, labels, env) IN
          r.err = "" =>
            /\ r.ret # ""
            /\ Matches(Get(r.reg, r.ret), r.ret, gen, driver, labels)
            /\ IF gen \in DOMAIN networks
               THEN Get(r.reg, gen) = networks[gen] /\ networks[gen].ID = gen
               ELSE Matches(Get(r.reg, gen), r.ret, gen, driver, labels)

\* Two networks were created, the second under a name that is the first's ID:
\* Get on that name answers with the first.
C1_Witness ==
    \E a, b \in DOMAIN networks :
        /\ a # b
        /\ networks[b].Name = a
        /\ Get(networks, a) = networks[a]
        /\ Get(networks, b) = networks[b]

(* ---------------------------------------------------------------------- *)

\* C2 as stated: whenever NetworkCreate returns an error, the in-memory index,
\* the persisted records and the bridge driver's per-network table are what
\* they were before the call.
C2_FailedCreateLeavesNoTrace ==
    CreateEnabled =>
      \A name \in NameInputs, driver \in DriverNames, labels \in LabelSets, env \in Envs :
        \A gen \in NameFor(networks, name) :
          LET r == CreateResult(gen, driver, labels, env) IN
          r.err # "" =>
            r.reg = networks /\ r.store = persisted /\ r.bn = bridgeNets

(* ---------------------------------------------------------------------- *)

\* The drivers NetworkCreate may be asked for that the table does not hold.
Unregistered == DriverNames \ DOMAIN drivers

\* C3 as stated: NetworkCreate with an unregistered driver fails with
\* DriverNotFound, calls no driver method and leaves the number of networks
\* unchanged.
C3_UnknownDriver_AsStated ==
    CreateEnabled =>
      \A name \in NameInputs, driver \in Unregistered, labels \in LabelSets, env \in Envs :
        \A gen \in NameFor(networks, name) :
          LET r == CreateResult(gen, driver, labels, env) IN
          /\ r.err = "DriverNotFound"
          /\ r.calls = << >>
          /\ Cardinality(DOMAIN r.reg) = Cardinality(DOMAIN networks)

\* C3, amended: NetworkCreate with an unregistered driver, under a name that
\* is empty or that no live network has, fails with DriverNotFound; under a
\* live network's name it fails with NameConflict. Either way it calls no
\* driver method and leaves the number of networks unchanged.
C3_UnknownDriver ==
    CreateEnabled =>
      \A name \in NameInputs, driver \in Unregistered, labels \in LabelSets, env \in Envs :
        \A gen \in NameFor(networks, name) :
          LET r == CreateResult(gen, driver, labels, env) IN
          /\ r.err = IF ExistsWithName(networks, gen) THEN "NameConflict" ELSE "DriverNotFound"
          /\ r.calls = << >>
          /\ Cardinality(DOMAIN r.reg) = Cardinality(DOMAIN networks)

\* With a network live, a create for an unregistered driver fails one way
\* under a fresh name and the other way under the live name.
C3_Witness ==
    /\ CreateEnabled
    /\ \E id \in DOMAIN networks, driver \in Unregistered :
         /\ CreateResult(networks[id].Name, driver, NoLabels, [drv |-> TRUE, io |-> TRUE]).err
              = "NameConflict"
         /\ \E gen \in NameFor(networks, "") :
              CreateResult(gen, driver, NoLabels, [drv |-> TRUE, io |-> TRUE]).err
                = "DriverNotFound"

(* ---------------------------------------------------------------------- *)

\* C4: no two live networks share a Name or an ID, and NetworkCreate under a
\* live network's Name fails with NameConflict and changes nothing.
C4_UniqueNamesAndIDs ==
    /\ \A a \in DOMAIN networks : networks[a].ID = a
    /\ \A a, b \in DOMAIN networks :
         a # b => networks[a].Name # networks[b].Name /\ networks[a].ID # networks[b].ID
    /\ \A a \in DOMAIN networks, driver \in DriverNames, labels \in LabelSets, env \in Envs :
         LET r == CreateResult(networks[a].Name, driver, labels, env) IN
         /\ r.err = "NameConflict"
         /\ r.reg = networks /\ r.store = persisted /\ r.bn = bridgeNets

\* Two networks are live, and the registry can still be asked for a third.
C4_Witness ==
    /\ Cardinality(DOMAIN networks) = 2
    /\ \E a \in DOMAIN networks :
         CreateResult(networks[a].Name, "simplebridge", NoLabels,
                      [drv |-> TRUE, io |-> TRUE]).err = "NameConflict"

(* ---------------------------------------------------------------------- *)

\* C5: NetworkCreate with an empty name goes on with a generated name that no
\* live network has and does not fail with NameConflict; when it succeeds and
\* a second empty-name NetworkCreate follows, the second has another name,
\* does not fail with NameConflict either, and on success returns another ID.
C5_GeneratedNames ==
    CreateEnabled =>
      \A gen \in NameFor(networks, ""), driver \in DriverNames, labels \in LabelSets, env \in Envs :
        LET r == CreateResult(gen, driver, labels, env) IN
        /\ ~ExistsWithName(networks, gen)
        /\ r.err # "NameConflict"
        /\ r.err = "" =>
             /\ r.ret \notin DOMAIN networks
             /\ LET used == UsedBy(r.reg, r.store, r.bn) IN
                (\E i \in 1..MaxIds : IdOf(i) \notin used) =>
                  \A gen2 \in NameFor(r.reg, ""), driver2 \in DriverNames,
                     labels2 \in LabelSets, env2 \in Envs :
                    LET r2 == CreateIn(r.reg, r.store, r.bn, RandomID(used),
                                       gen2, driver2, labels2, env2) IN
                    /\ gen2 # gen
                    /\ r2.err # "NameConflict"
                    /\ r2.err = "" =>
                         /\ r2.ret # r.ret
                         /\ r2.reg[r2.ret].Name # r2.reg[r.ret].Name

\* Two networks with generated names are live.
C5_Witness ==
    \E a, b \in DOMAIN networks :
        /\ a # b
        /\ networks[a].Name \in GenNames
        /\ networks[b].Name \in GenNames

(* ---------------------------------------------------------------------- *)

\* The references of NetworkRefs that are a live network's ID or Name.
LiveRefs == {ref \in NetworkRefs : ref \in DOMAIN networks \/ ExistsWithName(networks, ref)}

\* C6 as stated: NetworkDestroy removes the persisted record and the
\* in-memory entry if and only if the driver's Destroy succeeded, and after a
\* successful NetworkDestroy Get on the network's ID or name finds nothing.
C6_DestroyRemoves_AsStated ==
    \A ref \in LiveRefs, env \in Envs :
      LET net == Get(networks, ref)
          r == DestroyResult(ref, env)
          driverOk == NetDestroy(drivers, bridgeNets, net, env.drv).err = ""
      IN /\ (net.ID \notin DOMAIN r.reg /\ net.ID \notin DOMAIN r.store) <=> driverOk
         /\ r.err = "" =>
              Get(r.reg, net.ID) = NilNetwork /\ Get(r.reg, net.Name) = NilNetwork

\* C6, amended: NetworkDestroy removes the persisted record and the in-memory
\* entry if and only if the driver's Destroy succeeded and the record's file
\* could then be removed; otherwise both stay. After a successful
\* NetworkDestroy Get on the network's ID or name never returns the destroyed
\* network: it finds nothing, unless the ID is the Name, or the name the ID,
\* of another live network, which it then returns.
C6_DestroyRemoves ==
    \A ref \in LiveRefs, env \in Envs :
      LET net == Get(networks, ref)
          r == DestroyResult(ref, env)
          driverOk == NetDestroy(drivers, bridgeNets, net, env.drv).err = ""
          fileOk == Remove(networks, persisted, net.ID, env.io).err = ""
      IN /\ (r.err = "") <=> (driverOk /\ fileOk)
         /\ IF driverOk /\ fileOk
            THEN /\ r.reg = Without(networks, net.ID)
                 /\ r.store = Without(persisted, net.ID)
            ELSE r.reg = networks /\ r.store = persisted
         /\ r.err = "" =>
              /\ IF ExistsWithName(r.reg, net.ID)
                 THEN \E other \in DOMAIN networks \ {net.ID} :
                        networks[other].Name = net.ID
                          /\ Get(r.reg, net.ID) = networks[other]
                 ELSE Get(r.reg, net.ID) = NilNetwork
              /\ IF net.Name \in DOMAIN r.reg
                 THEN net.Name # net.ID /\ Get(r.reg, net.Name) = networks[net.Name]
                 ELSE Get(r.reg, net.Name) = NilNetwork

\* A bridge network is live and on file although the driver has already
\* dropped it: a NetworkDestroy went as far as the driver and then failed.
C6_Witness ==
    \E id \in DOMAIN networks :
        /\ networks[id].Driver = "simplebridge"
        /\ id \in DOMAIN persisted
        /\ id \notin DOMAIN bridgeNets
        /\ LiveRefs # {}

(* ---------------------------------------------------------------------- *)

\* The references of NetworkRefs that name no live network.
DeadRefs == NetworkRefs \ LiveRefs

\* C7: NetworkDestroy on a string that is neither a live ID nor a live Name
\* fails with NetworkNotFound, calls no driver method and changes nothing.
C7_DestroyUnknown ==
    \A ref \in DeadRefs, env \in Envs :
      LET r == DestroyResult(ref, env) IN
      /\ r.err = "NetworkNotFound"
      /\ r.calls = << >>
      /\ r.reg = networks /\ r.store = persisted /\ r.bn = bridgeNets

\* A network is live, and some reference names none: one that never did and
\* the ID of a network destroyed before.
C7_Witness ==
    /\ DOMAIN networks = {IdOf(2)}
    /\ {"nope", IdOf(1)} \subseteq DeadRefs

(* ---------------------------------------------------------------------- *)

\* C8 as stated: every Endpoint in any container's list references the ID of
\* a live network.
C8_EndpointsReferenceLiveNetworks ==
    \A c \in Containers : \A e \in EndpointsOf(c) : e.Network \in DOMAIN networks

(* ---------------------------------------------------------------------- *)

C10_RunningContainer ==
    \A c \in Containers :
      containers[c].running =>
        /\ \A ref \in NetworkRefs, labels \in LabelSets :
             LET r == PlugResult(c, ref, labels) IN
             r.err = "ContainerRunning" /\ r.cs = containers /\ r.calls = << >>
        /\ \A e \in EndpointRefs :
             LET r == UnplugResult(c, e) IN
             r.err = "ContainerRunning" /\ r.cs = containers /\ r.calls = << >>

\* A running container holds an endpoint on a live network.
C10_Witness ==
    \E c \in Containers :
        /\ containers[c].running
        /\ \E e \in EndpointsOf(c) : e.Network \in DOMAIN networks /\ e.ID \in EndpointRefs

(* ================== endpoint lists of several endpoints ================ *)

\* Longest endpoint list a container starts with, and the number of endpoint
\* IDs the lists are drawn from.
MaxListLen == 3
MaxEndpointIds == 3

\* Endpoint IDs as earlier calls of NetworkPlug returned them.
EndpointIdOf(i) == "ep" \o ToString(i)
EndpointIds == {EndpointIdOf(i) : i \in 1..MaxEndpointIds}

\* The two bridge networks that are live while the lists are exercised.
ListNetworkIds == {IdOf(1), IdOf(2)}
ListNetwork(id) ==
    [ID |-> id, Name |-> "net-" \o id, Driver |-> "simplebridge", Labels |-> NoLabels,
     State |-> ("simplebridge" :> BridgeState)]

\* The lists NetworkPlug can have built: endpoints on live networks, each
\* with an ID of its own.
EndpointLists ==
    LET eps == [ID : EndpointIds, Network : ListNetworkIds, Labels : {NoLabels}] IN
    {l \in UNION {[1..n -> eps] : n \in 0..MaxListLen} :
       \A i, j \in 1..Len(l) : i # j => l[i].ID # l[j].ID}

\* The registry holds two networks and a stopped container holds any such list.
ListInit ==
    /\ drivers = ("simplebridge" :> "bridge")
    /\ networks = [id \in ListNetworkIds |-> ListNetwork(id)]
    /\ persisted = [id \in ListNetworkIds |-> ListNetwork(id)]
    /\ bridgeNets = [id \in ListNetworkIds |-> NewBridgeNet]
    /\ containers \in {[c \in Containers |-> [running |-> FALSE, Endpoints |-> l]] :
                        l \in EndpointLists}
    /\ phase = "running"
    /\ NoThreads
    /\ NoCalls
    /\ NoWiring

ListNext ==
    \/ \E c \in ContainerIDs, e \in EndpointRefs : NetworkUnplug(c, e)
    \/ \E c \in Containers, b \in BOOLEAN : SetRunning(c, b)

SpecLists == ListInit /\ [][ListNext]_vars

(* ---------------------------------------------------------------------- *)

\* The endpoints of eps other than those with the given ID, in their order.
OthersOf(eps, endpointID) ==
    LET Keep(e) == e.ID # endpointID IN SelectSeq(eps, Keep)

\* C11: a successful NetworkUnplug(container, endpointID) removes exactly the
\* one endpoint with that ID from the container's list, also when several of
\* the container's endpoints are on the same network, and leaves the others
\* in their order; with an ID the container does not hold it fails with
\* EndpointNotFound and leaves the list as it was.
C11_UnplugRemovesOne ==
    \A c \in Containers :
      ~containers[c].running =>
        \A id \in EndpointIds \cup EndpointRefs :
          LET eps == containers[c].Endpoints
              r == UnplugResult(c, id)
          IN IF \E e \in EndpointsOf(c) : e.ID = id
             THEN /\ r.err = ""
                  /\ Len(r.cs[c].Endpoints) = Len(eps) - 1
                  /\ r.cs[c].Endpoints = OthersOf(eps, id)
                  /\ r.cs = [containers EXCEPT ![c].Endpoints = r.cs[c].Endpoints]
             ELSE r.err = "EndpointNotFound" /\ r.cs = containers

\* A stopped container holds two endpoints on the same network after a third
\* of its endpoints was unplugged.
C11_Witness ==
    \E c \in Containers :
        /\ ~containers[c].running
        /\ Len(containers[c].Endpoints) = 2
        /\ containers[c].Endpoints[1].Network = containers[c].Endpoints[2].Network
        /\ containers[c].Endpoints[1].ID = EndpointIdOf(3)
        /\ containers[c].Endpoints[2].ID = EndpointIdOf(1)

(* ---------------------------------------------------------------------- *)

\* The IDs of the endpoints the containers hold.
HeldEndpointIds == {e.ID : e \in UNION {EndpointsOf(c) : c \in Containers}}

PluginDrivers == {"weave"}

\* The driver table of a daemon that has just started: init has run.
StartDrivers == ("simplebridge" :> "bridge")

\* A registration that keeps the driver a name already has.
Registered_ifAbsent(tbl, name, driver) ==
    IF name \in DOMAIN tbl THEN tbl ELSE With(tbl, name, driver)

\* drivers[name] = driver: the table after a registration.
Registered(tbl, name, driver) == With(tbl, name, driver)

\* RegisterNetworkDriver.
RegisterNetworkDriver(name, driver) ==
    /\ phase # "failed"
    /\ drivers' = Registered(drivers, name, driver)
    /\ UNCHANGED <<networks, persisted, bridgeNets, containers, phase, threads, wiring, calls>>

\* NetworkList: the summaries of the live networks, in no particular order.
NetworkList(reg) ==
    {[ID |-> reg[id].ID, Name |-> reg[id].Name, Driver |-> reg[id].Driver,
      Labels |-> reg[id].Labels] : id \in DOMAIN reg}

\* ioutil.ReadDir on the registry's directory: the file names, sorted.
ReadDir(store) ==
    LET OnFile(id) == id \in DOMAIN store IN
    SelectSeq([i \in 1..MaxIds |-> IdOf(i)], OnFile)

\* What the host does to one record during Restore: the file can be opened or
\* not, decoded or not, the driver's Setup works or not, and the file can be
\* written again by Add or not.
RestoreOutcomes == {"ok", "unreadable", "undecodable", "setupFails", "unsaved"}

\* One round of Restore's loop that lets a failed Setup pass.
RestoreOne_lenient(id, outcome, tbl, reg, store, bn) ==
    IF outcome = "unreadable"
    THEN [err |-> "OpenFailed", setup |-> FALSE, reg |-> reg, store |-> store, bn |-> bn]
    ELSE IF outcome = "undecodable"
    THEN [err |-> "DecodeFailed", setup |-> FALSE, reg |-> reg, store |-> store, bn |-> bn]
    ELSE
      LET su == NetSetup(tbl, bn, store[id], outcome # "setupFails")
          ad == Add(reg, store, su.net, outcome # "unsaved")
      IN IF su.err # ""
         THEN [err |-> "", setup |-> FALSE, reg |-> reg, store |-> store, bn |-> su.bn]
         ELSE [err |-> "", setup |-> TRUE, reg |-> ad.reg, store |-> ad.store, bn |-> su.bn]

\* One round of Restore's loop, for the file named id. The error of Add is
\* dropped.
RestoreOne(id, outcome, tbl, reg, store, bn) ==
    IF outcome = "unreadable"
    THEN [err |-> "OpenFailed", setup |-> FALSE, reg |-> reg, store |-> store, bn |-> bn]
    ELSE IF outcome = "undecodable"
    THEN [err |-> "DecodeFailed", setup |-> FALSE, reg |-> reg, store |-> store, bn |-> bn]
    ELSE
      LET su == NetSetup(tbl, bn, store[id], outcome # "setupFails")
          ad == Add(reg, store, su.net, outcome # "unsaved")
      IN IF su.err # ""
         THEN [err |-> su.err, setup |-> FALSE, reg |-> reg, store |-> store, bn |-> su.bn]
         ELSE [err |-> "", setup |-> TRUE, reg |-> ad.reg, store |-> ad.store, bn |-> su.bn]

\* Restore's loop over the files ids; seen are the files it has opened or
\* tried to, setup the records whose Setup succeeded.
RECURSIVE RestoreFrom(_, _, _, _, _, _, _, _)
RestoreFrom(ids, out, tbl, reg, store, bn, seen, setup) ==
    IF ids = << >>
    THEN [err |-> "", reg |-> reg, store |-> store, bn |-> bn, seen |-> seen, setup |-> setup]
    ELSE
      LET id == Head(ids)
          one == RestoreOne(id, out[id], tbl, reg, store, bn)
      IN IF one.err # ""
         THEN [err |-> one.err, reg |-> one.reg, store |-> one.store, bn |-> one.bn,
               seen |-> seen \cup {id}, setup |-> setup]
         ELSE RestoreFrom(Tail(ids), out, tbl, one.reg, one.store, one.bn,
                          seen \cup {id}, IF one.setup THEN setup \cup {id} ELSE setup)

\* NetworkRegistry.Restore on the current state.
RestoreResult(out) ==
    RestoreFrom(ReadDir(persisted), out, drivers, networks, persisted, bridgeNets, {}, {})

\* Restore at startup; an error ends the start.
Restore(out) ==
    /\ phase = "starting"
    /\ LET r == RestoreResult(out) IN
         /\ networks' = r.reg
         /\ persisted' = r.store
         /\ bridgeNets' = r.bn
         /\ phase' = IF r.err = "" THEN "running" ELSE "failed"
    /\ UNCHANGED <<drivers, containers, threads, wiring, calls>>

\* The daemon's process ends and a new one starts: what was in memory is
\* gone, the files and the host's interfaces stay.
Restart ==
    /\ phase' = "starting"
    /\ drivers' = StartDrivers
    /\ networks' = [k \in {} |-> NilNetwork]
    /\ bridgeNets' = [k \in {} |-> NewBridgeNet]
    /\ UNCHANGED <<persisted, containers, threads, wiring, calls>>

RestoreNext ==
    \/ \E name \in {"", GenName(1)}, driver \in DriverNames \cup PluginDrivers, env \in Envs :
         phase = "running" /\ NetworkCreate(name, driver, NoLabels, env)
    \/ \E id \in DOMAIN networks, env \in Envs :
         phase = "running" /\ NetworkDestroy(id, env)
    \/ \E name \in PluginDrivers : RegisterNetworkDriver(name, "remote")
    \/ Restart
    \/ \E out \in [DOMAIN persisted -> RestoreOutcomes] : Restore(out)

SpecRestore == Init /\ [][RestoreNext]_vars

(* ---------------------------------------------------------------------- *)

\* The driver tables Restore can find: the one init built, with or without
\* the drivers plugins have registered since the start.
TablesAtRestore == {StartDrivers} \cup {With(StartDrivers, n, "remote") : n \in PluginDrivers}

\* C13 as stated: when a running daemon with N live networks restarts (index
\* and driver tables emptied, records kept) and Restore then returns success,
\* NetworkList returns the same N summaries as before the restart.
C13_RestoreRoundTrip ==
    [][(phase = "running" /\ phase' = "starting") =>
         \A out \in [DOMAIN persisted' -> RestoreOutcomes], tbl \in TablesAtRestore :
           LET r == RestoreFrom(ReadDir(persisted'), out, tbl, networks', persisted',
                                bridgeNets', {}, {})
           IN r.err = "" => NetworkList(r.reg) = NetworkList(networks)]_vars

(* ---------------------------------------------------------------------- *)

\* The records Restore cannot get through: the file cannot be opened or
\* decoded, the driver is not registered, or the driver's Setup fails.
Failing(out) ==
    {id \in DOMAIN persisted :
       \/ out[id] \in {"unreadable", "undecodable", "setupFails"}
       \/ GetNetworkDriver(drivers, persisted[id].Driver) = NoDriver}

\* The position of a file in the directory's order.
PlaceOf(id) == CHOOSE i \in 1..Len(ReadDir(persisted)) : ReadDir(persisted)[i] = id

\* C14: Restore is fail-fast. If some record cannot be decoded, names an
\* unregistered driver or fails in its driver's Setup, Restore returns an
\* error and goes on to no record after the first such one; Restore returns
\* success only if the Setup of every persisted record succeeded.
C14_RestoreFailFast ==
    phase = "starting" =>
      \A out \in [DOMAIN persisted -> RestoreOutcomes] :
        LET r == RestoreResult(out) IN
        /\ Failing(out) # {} =>
             /\ r.err # ""
             /\ \E bad \in Failing(out) :
                  /\ \A id \in Failing(out) : PlaceOf(bad) <= PlaceOf(id)
                  /\ \A id \in DOMAIN persisted :
                       PlaceOf(id) > PlaceOf(bad) =>
                         /\ id \notin r.seen
                         /\ id \notin DOMAIN r.reg
                         /\ id \notin DOMAIN r.bn
                  /\ bad \notin r.setup /\ bad \notin DOMAIN r.reg
        /\ r.err = "" =>
             /\ r.setup = DOMAIN persisted
             /\ \A id \in DOMAIN persisted :
                  GetNetworkDriver(drivers, persisted[id].Driver) = "bridge"
                    => id \in DOMAIN r.bn

\* A start has failed in the middle of the records: the first is restored,
\* the second is not.
C14_Witness ==
    /\ phase = "failed"
    /\ Cardinality(DOMAIN persisted) = 2
    /\ ReadDir(persisted)[1] \in DOMAIN networks
    /\ ReadDir(persisted)[2] \notin DOMAIN networks

(* ====================================================================== *)
(* The drivers table during one life of the process: registrations only.  *)
(* ====================================================================== *)

\* The plugins that register a network driver, by the name they announce.
PluginName(i) == "plugin" \o ToString(i)
RegNames == {"simplebridge"} \cup {PluginName(i) : i \in 1..MaxPlugins}

\* The drivers a name can be registered with: the built-in bridge driver and
\* a plugin's netDriver.
RegDrivers == {"bridge", "remote"}

DriversNext == \E name \in RegNames, driver \in RegDrivers : RegisterNetworkDriver(name, driver)

SpecDrivers == Init /\ [][DriversNext]_vars

\* C17: the table maps exact names. After RegisterNetworkDriver(n, d),
\* GetNetworkDriver(n) returns d (found), also after other names are
\* registered; a later registration of n replaces the driver; every other
\* name is found or not found as before; no registration makes a registered
\* name not found, and "simplebridge" is always found.
C17_DriverTable ==
    /\ GetNetworkDriver(drivers, "simplebridge") # NoDriver
    /\ \A n \in RegNames, d \in RegDrivers :
         LET t == Registered(drivers, n, d) IN
         /\ GetNetworkDriver(t, n) = d
         /\ \A m \in (RegNames \cup DriverNames) \ {n} :
              /\ GetNetworkDriver(t, m) = GetNetworkDriver(drivers, m)
              /\ \A d2 \in RegDrivers : GetNetworkDriver(Registered(t, m, d2), n) = d
         /\ \A d2 \in RegDrivers : GetNetworkDriver(Registered(t, n, d2), n) = d2
         /\ DOMAIN drivers \subseteq DOMAIN t

\* The built-in name has been registered again with a plugin's driver, one
\* plugin has registered and another has not.
C17_Witness ==
    /\ GetNetworkDriver(drivers, "simplebridge") = "remote"
    /\ GetNetworkDriver(drivers, PluginName(1)) = "bridge"
    /\ GetNetworkDriver(drivers, PluginName(2)) = NoDriver

(* ====================================================================== *)
(* Goroutines: who is inside the index and the driver table.  What the    *)
(* operations do to the registry's data is the subject of Spec; here an   *)
(* operation is the sequence of its accesses, taken from its code along   *)
(* its longest path, and a goroutine is in the middle of the access it is *)
(* at.                                                                    *)
(* ====================================================================== *)

Procs == 1..MaxProcs

\* The exported operations of the registry.
PublicOps ==
    {"NetworkCreate", "NetworkList", "NetworkDestroy", "NetworkPlug",
     "NetworkUnplug", "Restore", "Shutdown"}

\* What a container's endpoint does when the container starts and stops.
EndpointOps == {"Endpoint.Plug", "Endpoint.Unplug"}

Ops == PublicOps \cup EndpointOps \cup {"RegisterNetworkDriver"}

\* The accesses of an operation, in the order of its code: Lock and Unlock of
\* the registry's mutex, reads and writes of the index reg.networks, of the
\* drivers table and of a container's endpoint list.
Program(op) ==
    CASE op = "NetworkCreate"  -> <<"Lock", "readIndex", "readTable", "writeIndex", "Unlock">>
      [] op = "NetworkList"    -> <<"Lock", "readIndex", "Unlock">>
      [] op = "NetworkDestroy" -> <<"Lock", "readIndex", "readTable", "writeIndex", "Unlock">>
      [] op = "NetworkPlug"    -> <<"Lock", "readIndex", "writeList", "Unlock">>
      [] op = "NetworkUnplug"  -> <<"Lock", "writeList", "Unlock">>
      [] op = "Shutdown"       -> <<"Lock", "readIndex", "readTable", "Unlock">>
      [] op = "Restore"        -> <<"readTable", "writeIndex">>
      [] op = "Endpoint.Plug"  -> <<"readIndex", "readTable">>
      [] op = "Endpoint.Unplug" -> <<"readIndex", "readTable">>
      [] op = "RegisterNetworkDriver" -> <<"writeTable">>

\* The access a goroutine is in the middle of ("Lock": waiting for the mutex).
At(p) == IF pc[p] = Idle THEN "none" ELSE Program(pc[p].op)[pc[p].at]

\* A goroutine enters an operation.  Restore is the daemon's start: it runs
\* before anything else is accepted, and everything else runs after it.
Call(p, op) ==
    /\ pc[p] = Idle
    /\ IF op = "Restore"
         THEN phase = "starting" /\ \A q \in Procs : pc[q] = Idle
         ELSE phase = "running"
    /\ pc' = [pc EXCEPT ![p] = [op |-> op, at |-> 1]]
    /\ UNCHANGED <<drivers, networks, persisted, bridgeNets, containers, phase, mutex, wiring, calls>>

\* A goroutine finishes the access it is at and begins the next one, or
\* returns.  sync.Mutex: Lock finishes only when nobody holds the mutex.
Advance(p) ==
    /\ pc[p] # Idle
    /\ At(p) = "Lock" => mutex = 0
    /\ mutex' = CASE At(p) = "Lock"   -> p
                  [] At(p) = "Unlock" -> 0
                  [] OTHER            -> mutex
    /\ drivers' = IF At(p) = "writeTable"
                    THEN CHOOSE t \in {With(drivers, n, "remote") : n \in PluginDrivers} : TRUE
                    ELSE drivers
    /\ pc' = [pc EXCEPT ![p] = IF pc[p].at = Len(Program(pc[p].op))
                                 THEN Idle
                                 ELSE [op |-> pc[p].op, at |-> pc[p].at + 1]]
    /\ phase' = IF pc[p].op = "Restore" /\ pc'[p] = Idle THEN "running" ELSE phase
    /\ UNCHANGED <<networks, persisted, bridgeNets, containers, wiring, calls>>

\* The daemon before its start, no goroutine inside the package.
LockInit ==
    /\ drivers = StartDrivers
    /\ networks = [id \in {} |-> NilNetwork]
    /\ persisted = [id \in {} |-> NilNetwork]
    /\ bridgeNets = [id \in {} |-> NoIfaces]
    /\ containers = [c \in Containers |-> [running |-> FALSE, Endpoints |-> << >>]]
    /\ phase = "starting"
    /\ NoThreads
    /\ NoCalls
    /\ NoWiring

LockNext ==
    \/ \E p \in Procs, op \in Ops : Call(p, op)
    \/ \E p \in Procs : Advance(p)

SpecLock == LockInit /\ [][LockNext]_vars

(* ---------------------------------------------------------------------- *)

\* The goroutine has begun the body of its operation.
Inside(p) == At(p) \notin {"none", "Lock"}

\* The goroutine is reading or writing the index.
InIndex(p) == At(p) \in {"readIndex", "writeIndex"}

\* C15 as stated: every public operation of the registry, and every read of
\* the index on behalf of an endpoint, runs holding the registry's one lock,
\* so no two of them overlap; Restore overlaps no other registry operation.
C15_OneLock ==
    /\ \A p \in Procs : (pc[p].op \in PublicOps /\ Inside(p)) => mutex = p
    /\ \A p \in Procs : InIndex(p) => mutex = p
    /\ \A p, q \in Procs :
         (p # q /\ Inside(p) /\ Inside(q)) =>
           ~(pc[p].op \in PublicOps \cup EndpointOps /\ pc[q].op \in PublicOps \cup EndpointOps)

(* ---------------------------------------------------------------------- *)

\* The goroutine is reading or writing the drivers table.
InTable(p) == At(p) \in {"readTable", "writeTable"}

\* C16 as stated: registering a driver and looking one up are free of data
\* races: no registration is in progress while another goroutine looks a
\* driver up or registers one.
C16_DriverTableRaceFree ==
    \A p, q \in Procs :
      (p # q /\ InTable(p) /\ InTable(q)) => (At(p) = "readTable" /\ At(q) = "readTable")

(* ====================================================================== *)
(* The bridge driver on the host: simplebridge.Network.Setup against the  *)
(* bridge interface, the firewall and the allocator, and the addresses    *)
(* Allocate hands out.  One bridge interface name and one network.        *)
(* ====================================================================== *)

\* The fields of a simplebridge.Network that Setup reads.  fixedIPv4Subnet
\* is TRUE when a fixed sub-range is configured.
BridgeConfigs ==
    [bridgeIPv4Addr : BridgeIPs, fixedIPv4Subnet : BOOLEAN, enableIPv6 : BOOLEAN,
     enableIPTables : BOOLEAN, enableICC : BOOLEAN, enableIPMasq : BOOLEAN,
     enableIPForward : BOOLEAN]

\* The host commands that can be made to fail: creating the bridge, the
\* first insertion of a firewall rule, the creation of a chain.
FailPoints == {"none", "CreateBridge", "Raw", "NewChain"}

\* iptables.Exists, iptables.Raw with -I and with -D (whose error the code
\* ignores).
Exists(h, rule) == h.rules[rule] > 0
Insert(h, rule) == [h EXCEPT !.rules[rule] = @ + 1]
Delete(h, rule) == [h EXCEPT !.rules[rule] = IF @ > 0 THEN @ - 1 ELSE 0]

\* A rule inserted without looking whether it exists.
InstallRule_blind(r, rule, fail) ==
    IF r.err # "" THEN r
    ELSE IF fail = "Raw" THEN [err |-> "FirewallError", host |-> r.host]
    ELSE [err |-> "", host |-> Insert(r.host, rule)]

\* if !iptables.Exists(...) { iptables.Raw(-I ...) }, after the steps before
\* it have succeeded.
InstallRule(r, rule, fail) ==
    IF r.err # "" \/ Exists(r.host, rule) THEN r
    ELSE IF fail = "Raw" THEN [err |-> "FirewallError", host |-> r.host]
    ELSE [err |-> "", host |-> Insert(r.host, rule)]

\* setupIPTables leaving the rule of the other setting in place.
setupIPTables_noDelete(h, n, fail) ==
    LET start == [err |-> "", host |-> h]
        masq  == IF n.enableIPMasq THEN InstallRule(start, Masq(n.bridgeIPv4Addr), fail) ELSE start
        icc   == InstallRule(masq, IF n.enableICC THEN "accept" ELSE "drop", fail)
        outg  == InstallRule(icc, "outgoing", fail)
    IN  InstallRule(outg, "established", fail)

\* Network.setupIPTables.
setupIPTables(h, n, fail) ==
    LET start == [err |-> "", host |-> h]
        masq  == IF n.enableIPMasq THEN InstallRule(start, Masq(n.bridgeIPv4Addr), fail) ELSE start
        icc   == IF masq.err # "" THEN masq
                 ELSE IF ~n.enableICC
                   THEN InstallRule([err |-> "", host |-> Delete(masq.host, "accept")], "drop", fail)
                   ELSE InstallRule([err |-> "", host |-> Delete(masq.host, "drop")], "accept", fail)
        outg  == InstallRule(icc, "outgoing", fail)
    IN  InstallRule(outg, "established", fail)

\* Network.configureBridge: create the interface, give it the IPv4 address
\* and, with IPv6 enabled, the IPv6 address, bring it up.
configureBridge(h, n, fail) ==
    IF fail = "CreateBridge" THEN [err |-> "BridgeError", host |-> h]
    ELSE [err |-> "",
          host |-> [h EXCEPT !.iface = [present |-> TRUE, v4 |-> n.bridgeIPv4Addr,
                                        v6 |-> IF n.enableIPv6 THEN {BridgeIPv6} ELSE {}]]]

\* Network.setupIPv6Bridge on an existing interface.
setupIPv6Bridge(h) == [h EXCEPT !.iface.v6 = @ \cup {BridgeIPv6}]

\* ipallocator.New, RegisterSubnet(network, subnet) and RequestIP(network, ip)
\* for a given ip and for none.
AllocatorNew == [range |-> BridgeSubnet, allocated |-> {}]
RegisterSubnet(a, subnet) == [a EXCEPT !.range = subnet]
RequestGivenIP(a, ip) == [a EXCEPT !.allocated = @ \cup {ip}]
RequestAnyIP(a) == a.range \ a.allocated

\* "Block BridgeIP in IP allocator":
\* n.ipAllocator.RequestIP(n.bridgeIPv4Network, n.bridgeIPv4Network.IP).
ReserveBridgeIP(a, n) == RequestGivenIP(a, NetBase)

\* The steps of Network.Setup after the interface's addresses are validated.
SetupFirewallAndAllocator(h, n, fail) ==
    LET fw == IF n.enableIPTables THEN setupIPTables(h, n, fail) ELSE [err |-> "", host |-> h]
        h1 == [fw.host EXCEPT !.forward = @ \/ n.enableIPForward]
        h2 == [h1 EXCEPT !.chains = @ \ {"nat"}]
        h3 == IF n.enableIPTables THEN [h2 EXCEPT !.chains = @ \cup {"nat", "filter"}] ELSE h2
        a1 == IF n.fixedIPv4Subnet THEN RegisterSubnet(AllocatorNew, FixedSubnet) ELSE AllocatorNew
    IN  IF fw.err # "" THEN [err |-> fw.err, host |-> fw.host, alloc |-> AllocatorNew]
        ELSE IF n.enableIPTables /\ fail = "NewChain"
          THEN [err |-> "FirewallError", host |-> h2, alloc |-> AllocatorNew]
        ELSE [err |-> "", host |-> h3, alloc |-> ReserveBridgeIP(a1, n)]

\* The rules setupIPTables looks at, in its order.
RuleOrder(n) ==
    (IF n.enableIPMasq THEN <<Masq(n.bridgeIPv4Addr)>> ELSE << >>)
      \o <<IF n.enableICC THEN "accept" ELSE "drop", "outgoing", "established">>

\* The firewall commands of a Network.Setup that gets past the validation of
\* the interface, in the order Setup issues them: the rules setupIPTables
\* inserts, then RemoveExistingChain on the nat table, then NewChain on the nat
\* and on the filter table.
FirewallCommands(h, n, fail) ==
    LET fw == IF n.enableIPTables THEN setupIPTables(h, n, fail) ELSE [err |-> "", host |-> h]
        inserted(rule) == fw.host.rules[rule] > Delete(h, IF n.enableICC THEN "drop" ELSE "accept").rules[rule]
        inserts == [i \in DOMAIN SelectSeq(RuleOrder(n), inserted) |->
                      [op |-> "Insert", arg |-> SelectSeq(RuleOrder(n), inserted)[i]]]
        remove  == <<[op |-> "RemoveExistingChain", arg |-> "nat"]>>
        create  == IF ~n.enableIPTables THEN << >>
                   ELSE IF fail = "NewChain" THEN <<[op |-> "NewChain", arg |-> "nat"]>>
                   ELSE <<[op |-> "NewChain", arg |-> "nat"], [op |-> "NewChain", arg |-> "filter"]>>
    IN  IF ~n.enableIPTables THEN remove
        ELSE IF fw.err # "" THEN inserts
        ELSE inserts \o remove \o create

\* Network.Setup validating nothing: an existing interface is taken as it is.
SimplebridgeSetup_noValidate(h, n, fail) ==
    LET made == IF h.iface.present THEN [err |-> "", host |-> h] ELSE configureBridge(h, n, fail)
    IN  IF made.err # "" THEN [err |-> made.err, host |-> made.host, alloc |-> AllocatorNew]
        ELSE SetupFirewallAndAllocator(made.host, n, fail)

\* simplebridge.Network.Setup for a network object fresh from NewNetwork or
\* FromJson: the error, the host afterwards and the object's allocator.
SimplebridgeSetup(h, n, fail) ==
    LET made == IF h.iface.present THEN [err |-> "", host |-> h] ELSE configureBridge(h, n, fail)
        v6   == IF n.enableIPv6 /\ made.host.iface.v6 = {}
                  THEN setupIPv6Bridge(made.host) ELSE made.host
    IN  IF made.err # "" THEN [err |-> made.err, host |-> made.host, alloc |-> AllocatorNew]
        ELSE IF made.host.iface.v4 # n.bridgeIPv4Addr
          THEN [err |-> "BridgeConfigMismatch", host |-> made.host, alloc |-> AllocatorNew]
        ELSE IF n.enableIPv6 /\ BridgeIPv6 \notin v6.iface.v6
          THEN [err |-> "BridgeIPv6Mismatch", host |-> v6, alloc |-> AllocatorNew]
        ELSE SetupFirewallAndAllocator(v6, n, fail)

\* The network object after its Setup: its address, its allocator and its
\* empty runtime table (the fields Allocate and Release use).  plugged is no
\* field of the object: it is what the callers know, the endpoints they have
\* plugged and not unplugged since.
BridgeObject(n, alloc) ==
    [present |-> TRUE, bridgeIPv4Addr |-> n.bridgeIPv4Addr,
     range |-> alloc.range, allocated |-> alloc.allocated, ifaces |-> NoIfaces,
     plugged |-> {}]

\* simpleBridgeDriver.Setup: a new network object is built and set up; when
\* that succeeds it replaces the object the driver held.
DriverSetupResult(h, b, n, fail) ==
    LET r == SimplebridgeSetup(h, n, fail) IN
    [err |-> r.err, host |-> r.host,
     bridge |-> IF r.err # "" THEN b ELSE BridgeObject(n, r.alloc)]

DriverSetup(n, fail) ==
    LET r == DriverSetupResult(host, bridge, n, fail) IN
    /\ host' = r.host
    /\ bridge' = r.bridge
    /\ UNCHANGED <<drivers, networks, persisted, bridgeNets, containers, phase, threads, calls>>

\* simpleBridgeDriver.Plug -> Network.Allocate(id, nil): the addresses it can
\* return.
PlugAddrs == IF bridge.present THEN RequestAnyIP(bridge) ELSE {}

\* Network.Allocate(id, nil): the allocator's error when it has no address
\* left, else the table and the allocator with one of the addresses it can
\* give.
AllocateResults(bnet, id) ==
    IF RequestAnyIP(bnet) = {}
    THEN {[err |-> "AddressExhausted", bridge |-> bnet, ip |-> NetBase]}
    ELSE {[err |-> "", ip |-> ip,
           bridge |-> [Allocate(bnet, id, ip) EXCEPT !.plugged = @ \cup {id}]] :
            ip \in RequestAnyIP(bnet)}

\* Network.Release(id).
ReleaseResult(bnet, id) ==
    IF id \notin DOMAIN bnet.ifaces
    THEN [err |-> "EndpointUnknown", bridge |-> bnet]
    ELSE [err |-> "", bridge |-> [Release(bnet, id) EXCEPT !.plugged = @ \ {id}]]

DriverPlug(id) ==
    /\ bridge.present
    /\ \E r \in AllocateResults(bridge, id) : bridge' = r.bridge
    /\ UNCHANGED <<drivers, networks, persisted, bridgeNets, containers, phase, threads, host, calls>>

\* simpleBridgeDriver.Unplug -> Network.Release(id).
DriverUnplug(id) ==
    /\ bridge.present
    /\ bridge' = ReleaseResult(bridge, id).bridge
    /\ UNCHANGED <<drivers, networks, persisted, bridgeNets, containers, phase, threads, host, calls>>

\* Somebody creates the bridge interface by hand, or takes it away.
PreCreate(a) ==
    /\ ~host.iface.present
    /\ host' = [host EXCEPT !.iface = [present |-> TRUE, v4 |-> a, v6 |-> {}]]
    /\ UNCHANGED <<drivers, networks, persisted, bridgeNets, containers, phase, threads, bridge, calls>>

RemoveIface ==
    /\ host.iface.present
    /\ host' = [host EXCEPT !.iface = NoIface]
    /\ UNCHANGED <<drivers, networks, persisted, bridgeNets, containers, phase, threads, bridge, calls>>

BridgeNext ==
    \/ \E n \in BridgeConfigs, fail \in FailPoints : DriverSetup(n, fail)
    \/ \E a \in BridgeIPs : PreCreate(a)
    \/ RemoveIface

SpecBridge == Init /\ [][BridgeNext]_vars

\* The rules of a configuration's four groups that the host holds.
MasqueradeRules(h, n) == h.rules[Masq(n.bridgeIPv4Addr)]
InterContainerRules(h) == h.rules["accept"] + h.rules["drop"]

\* C18 as stated: Setup twice in succession with the same configuration,
\* firewall enabled, succeeds both times and leaves the bridge interface with
\* the addresses it had after the first call and exactly one rule in each of
\* the groups masquerade, inter-container, outgoing and established.
C18_SetupIdempotent_AsStated ==
    \A n \in BridgeConfigs :
      LET r1 == DriverSetupResult(host, bridge, n, "none")
          r2 == DriverSetupResult(r1.host, r1.bridge, n, "none")
      IN  (n.enableIPTables /\ r1.err = "") =>
            /\ r2.err = ""
            /\ r2.host.iface.present
            /\ r2.host.iface = r1.host.iface
            /\ MasqueradeRules(r2.host, n) = 1
            /\ InterContainerRules(r2.host) = 1
            /\ r2.host.rules["outgoing"] = 1
            /\ r2.host.rules["established"] = 1

\* C18, amended: the masquerade rule is there exactly once when masquerade
\* is enabled, and Setup adds none when it is not; the second call changes
\* nothing on the host and builds the same network object as the first.
C18_SetupIdempotent ==
    \A n \in BridgeConfigs :
      LET r1 == DriverSetupResult(host, bridge, n, "none")
          r2 == DriverSetupResult(r1.host, r1.bridge, n, "none")
      IN  (n.enableIPTables /\ r1.err = "") =>
            /\ r2.err = ""
            /\ r2.host.iface.present
            /\ r2.host = r1.host
            /\ r2.bridge = r1.bridge
            /\ MasqueradeRules(r2.host, n) =
                 (IF n.enableIPMasq THEN 1 ELSE MasqueradeRules(host, n))
            /\ InterContainerRules(r2.host) = 1
            /\ r2.host.rules["outgoing"] = 1
            /\ r2.host.rules["established"] = 1

\* A Setup with firewall and masquerade has run on the bridge it created,
\* with IPv6, and the driver holds its network object.
C18_Witness ==
    /\ bridge.present
    /\ host.iface.present /\ host.iface.v4 = bridge.bridgeIPv4Addr /\ BridgeIPv6 \in host.iface.v6
    /\ MasqueradeRules(host, bridge) = 1
    /\ InterContainerRules(host) = 1
    /\ host.chains = {"nat", "filter"}

(* ---------------------------------------------------------------------- *)

\* C19: when the bridge interface exists with IPv4 address A and Setup is
\* called with a configuration declaring another address B, Setup fails with
\* the configuration-mismatch error and changes nothing: the interface's
\* addresses, the firewall rules and chains, forwarding, and the network
\* object with its allocator that the driver holds are as before.
C19_MismatchMutatesNothing ==
    host.iface.present =>
      \A n \in BridgeConfigs, fail \in FailPoints :
        n.bridgeIPv4Addr # host.iface.v4 =>
          LET r == DriverSetupResult(host, bridge, n, fail) IN
          /\ r.err = "BridgeConfigMismatch"
          /\ r.host = host
          /\ r.bridge = bridge

\* The interface was created by hand with an address, nothing of the driver
\* is on the host yet, and a configuration with another address exists.
C19_Witness ==
    /\ host.iface.present
    /\ ~bridge.present
    /\ host.rules = NoHost.rules
    /\ \E n \in BridgeConfigs : n.bridgeIPv4Addr # host.iface.v4

(* ---------------------------------------------------------------------- *)
(* Endpoints on a bridge network that has been set up on a clean host.    *)

\* The configurations NewNetwork builds from labels: of the boolean options
\* only InterContainerCommunication can come out different from FALSE.
AllocConfigs ==
    {n \in BridgeConfigs :
       ~n.enableIPv6 /\ ~n.enableIPTables /\ ~n.enableIPMasq /\ ~n.enableIPForward}

AllocInit ==
    /\ drivers = StartDrivers
    /\ networks = [id \in {} |-> NilNetwork]
    /\ persisted = [id \in {} |-> NilNetwork]
    /\ bridgeNets = [id \in {} |-> NoIfaces]
    /\ containers = [c \in Containers |-> [running |-> FALSE, Endpoints |-> << >>]]
    /\ phase = "running"
    /\ NoThreads
    /\ NoCalls
    /\ \E n \in AllocConfigs :
         LET r == SimplebridgeSetup(NoHost, n, "none") IN
         /\ r.err = ""
         /\ host = r.host
         /\ bridge = BridgeObject(n, r.alloc)

AllocNext ==
    \/ \E id \in EndpointIds : DriverPlug(id)
    \/ \E id \in EndpointIds : DriverUnplug(id)

SpecAlloc == AllocInit /\ [][AllocNext]_vars

\* C20 as stated: after a successful Setup the bridge's own IPv4 address is
\* reserved in the allocator, no Plug returns it, and every address a Plug
\* returns or has returned lies in the range registered for endpoints.
C20_BridgeAddressReserved ==
    bridge.present =>
      /\ bridge.bridgeIPv4Addr \in bridge.allocated
      /\ bridge.bridgeIPv4Addr \notin PlugAddrs
      /\ PlugAddrs \subseteq bridge.range
      /\ \A id \in DOMAIN bridge.ifaces :
           /\ bridge.ifaces[id] # bridge.bridgeIPv4Addr
           /\ bridge.ifaces[id] \in bridge.range

(* ---------------------------------------------------------------------- *)

\* C21 as stated: after any sequence of Plug and Unplug calls on the network,
\* repeated Unplug of one endpoint included, no two endpoints that are plugged
\* (plugged and not unplugged since) hold the same IPv4 address.
C21_PluggedAddressesDistinct ==
    \A e1, e2 \in bridge.plugged :
      e1 # e2 => bridge.ifaces[e1] # bridge.ifaces[e2]

(* ---------------------------------------------------------------------- *)

\* C22 as stated: Unplug of an endpoint without an entry in the runtime table
\* fails with EndpointUnknown; otherwise it succeeds, releases the address and
\* drops the entry, so that a second Unplug of the endpoint fails with
\* EndpointUnknown and releases nothing.
C22_UnplugDropsEntry ==
    bridge.present =>
      \A id \in EndpointIds :
        LET r1 == ReleaseResult(bridge, id)
            r2 == ReleaseResult(r1.bridge, id)
        IN  IF id \notin DOMAIN bridge.ifaces
            THEN r1.err = "EndpointUnknown" /\ r1.bridge = bridge
            ELSE /\ r1.err = ""
                 /\ bridge.ifaces[id] \notin r1.bridge.allocated
                 /\ id \notin DOMAIN r1.bridge.ifaces
                 /\ r2.err = "EndpointUnknown"
                 /\ r2.bridge.allocated = r1.bridge.allocated

(* ---------------------------------------------------------------------- *)

\* C23: when every address of the range is in use, a Plug for a new endpoint
\* fails with the allocator's AddressExhausted and changes nothing; after the
\* Unplug of a plugged endpoint the next Plug for a new endpoint succeeds and
\* returns the address that Unplug released.
C23_ReuseReleasedAddress ==
    (bridge.present /\ RequestAnyIP(bridge) = {}) =>
      \A new \in EndpointIds \ bridge.plugged :
        /\ \A r \in AllocateResults(bridge, new) :
             r.err = "AddressExhausted" /\ r.bridge = bridge
        /\ \A e \in bridge.plugged :
             LET freed == ReleaseResult(bridge, e) IN
             /\ freed.err = ""
             /\ \A r \in AllocateResults(freed.bridge, new) :
                  r.err = "" /\ r.ip = bridge.ifaces[e] /\ new \in r.bridge.plugged

\* The range is used up, some endpoint is plugged and another is not.
C23_Witness ==
    /\ bridge.present
    /\ RequestAnyIP(bridge) = {}
    /\ bridge.plugged # {}
    /\ EndpointIds \ bridge.plugged # {}

(* ---------------------------------------------------------------------- *)

\* C37 as stated: while the daemon runs, that is after every completed
\* NetworkCreate and NetworkDestroy and after a successful Restore, the IDs of
\* the persisted records are the IDs of the registry's index.
C37_FilesMatchIndex ==
    phase = "running" => DOMAIN persisted = DOMAIN networks

(* ---------------------------------------------------------------------- *)

\* C38 as stated: after any sequence of NetworkCreate and NetworkDestroy
\* calls, successful or failed, the networks of the bridge driver that the
\* index holds are the networks the bridge driver's own table holds.
C38_IndexMatchesBridgeTable ==
    {id \in DOMAIN networks : GetNetworkDriver(drivers, networks[id].Driver) = "bridge"}
      = DOMAIN bridgeNets

(* ---------------------------------------------------------------------- *)

\* C35: Get(s) returns the live network whose ID is s when there is one, also
\* when another live network has the name s; else a live network whose name
\* is s; else nothing.
C35_GetByIdFirst ==
    \A s \in NetworkRefs :
      LET found == Get(networks, s) IN
      IF s \in DOMAIN networks THEN found = networks[s]
      ELSE IF \E id \in DOMAIN networks : networks[id].Name = s
        THEN found.Name = s /\ found.ID \in DOMAIN networks /\ networks[found.ID] = found
        ELSE found = NilNetwork

\* A live network has the ID of another live network as its name and Get of
\* that string answers with the network of that ID.
C35_Witness ==
    \E a, b \in DOMAIN networks :
      /\ a # b
      /\ networks[b].Name = a
      /\ Get(networks, a).ID = a

(* ====================================================================== *)
(* Endpoints across a restart: the bridge driver's runtime table.         *)
(* ====================================================================== *)

ReplugNext ==
    \/ \E env \in Envs : phase = "running" /\ NetworkCreate("", "simplebridge", NoLabels, env)
    \/ \E c \in ContainerIDs, n \in DOMAIN networks :
         phase = "running" /\ NetworkPlug(c, n, NoLabels)
    \/ \E c \in Containers, i \in 1..MaxEndpoints : phase = "running" /\ EndpointPlug(c, i)
    \/ \E c \in Containers, i \in 1..MaxEndpoints : phase = "running" /\ EndpointUnplug(c, i)
    \/ \E c \in ContainerIDs, e \in EndpointRefs : phase = "running" /\ NetworkUnplug(c, e)
    \/ \E id \in DOMAIN networks, env \in Envs : phase = "running" /\ NetworkDestroy(id, env)
    \/ Restart
    \/ \E out \in [DOMAIN persisted -> RestoreOutcomes] : Restore(out)

SpecReplug == Init /\ [][ReplugNext]_vars

\* Restore in the process that follows this one: the driver table of init,
\* an empty index and an empty bridge table, the files as they are.
RestoreAfterRestart(out) ==
    RestoreFrom(ReadDir(persisted), out, StartDrivers, [k \in {} |-> NilNetwork],
                persisted, [k \in {} |-> NewBridgeNet], {}, {})

\* C33: after a restart and a successful Restore the runtime table of every
\* bridge network is empty: an Unplug at the driver for an endpoint that was
\* plugged before the restart fails with EndpointUnknown, and succeeds once
\* the endpoint is plugged again.
C33_TableNotRestored ==
    phase = "running" =>
      \A out \in [DOMAIN persisted -> RestoreOutcomes] :
        \A r \in {RestoreAfterRestart(out)} :
          r.err = "" =>
            /\ \A n \in DOMAIN r.bn : r.bn[n].ifaces = NoIfaces
            /\ \A n \in DOMAIN bridgeNets \cap DOMAIN r.reg :
                 \A id \in DOMAIN bridgeNets[n].ifaces :
                   /\ BridgeUnplug(r.bn, r.reg[n], [ID |-> id]).err = "EndpointUnknown"
                   /\ \A p \in BridgePlug(r.bn, r.reg[n], [ID |-> id]) :
                        p.err = "" => BridgeUnplug(p.bn, r.reg[n], [ID |-> id]).err = ""

\* An endpoint is plugged at the bridge driver and the Restore of the next
\* process brings its network back.
C33_Witness ==
    /\ phase = "running"
    /\ \E n \in DOMAIN bridgeNets : \E out \in [DOMAIN persisted -> RestoreOutcomes] :
         /\ bridgeNets[n].ifaces # NoIfaces
         /\ RestoreAfterRestart(out).err = ""
         /\ n \in DOMAIN RestoreAfterRestart(out).reg

(* ====================================================================== *)
(* NetworkRegistry.Shutdown, at the end of the daemon's process.          *)
(* ====================================================================== *)

\* The orders in which a range over a Go map can visit the keys ids.
Orders(ids) ==
    {o \in [1..Cardinality(ids) -> ids] : \A i, j \in DOMAIN o : o[i] = o[j] => i = j}

\* One round of the loop that ends the loop when Destroy fails.
ShutdownOne_failFast(id, ok, tbl, reg, bn) ==
    LET de == NetDestroy(tbl, bn, reg[id], ok) IN
    [err |-> de.err, bn |-> de.bn, calls |-> Len(de.calls)]

\* One round of Shutdown's loop: network.Destroy() with its error dropped;
\* calls counts the calls of the driver's Destroy.
ShutdownOne(id, ok, tbl, reg, bn) ==
    LET de == NetDestroy(tbl, bn, reg[id], ok) IN
    [err |-> "", bn |-> de.bn, calls |-> Len(de.calls)]

\* Shutdown's loop over the networks ids; out: whether the driver's work for
\* a network succeeds.
RECURSIVE ShutdownFrom(_, _, _, _, _, _)
ShutdownFrom(ids, out, tbl, reg, bn, count) ==
    IF ids = << >> THEN [err |-> "", bn |-> bn, calls |-> count]
    ELSE
      LET id == Head(ids)
          one == ShutdownOne(id, out[id], tbl, reg, bn)
      IN IF one.err # ""
         THEN [err |-> one.err, bn |-> one.bn, calls |-> [count EXCEPT ![id] = @ + one.calls]]
         ELSE ShutdownFrom(Tail(ids), out, tbl, reg, one.bn,
                           [count EXCEPT ![id] = @ + one.calls])

\* NetworkRegistry.Shutdown on the current state, for every order of the loop.
ShutdownResults(out) ==
    {ShutdownFrom(o, out, drivers, networks, bridgeNets, [id \in DOMAIN networks |-> 0]) :
       o \in Orders(DOMAIN networks)}

\* Shutdown, after which the process ends.
Shutdown(out) ==
    /\ phase = "running"
    /\ \E r \in ShutdownResults(out) : bridgeNets' = r.bn
    /\ phase' = "stopped"
    /\ UNCHANGED <<drivers, networks, persisted, containers, threads, wiring, calls>>

ShutdownNext ==
    \/ RestoreNext
    \/ \E out \in [DOMAIN networks -> BOOLEAN] : Shutdown(out)

SpecShutdown == Init /\ [][ShutdownNext]_vars

\* C34: Shutdown calls the driver's Destroy once for every live network whose
\* driver is registered and for no other, goes on to the remaining networks
\* when a Destroy fails, and reports no error.
C34_ShutdownBestEffort ==
    phase = "running" =>
      \A out \in [DOMAIN networks -> BOOLEAN] : \A r \in ShutdownResults(out) :
        /\ r.err = ""
        /\ \A id \in DOMAIN networks :
             r.calls[id] =
               (IF GetNetworkDriver(drivers, networks[id].Driver) = NoDriver THEN 0 ELSE 1)

\* Two networks are live and the Destroy of either can fail: the driver's
\* Destroy is still called for the other.
C34_Witness ==
    /\ phase = "running"
    /\ Cardinality(DOMAIN networks) >= 2
    /\ \E out \in [DOMAIN networks -> BOOLEAN] : \E r \in ShutdownResults(out) :
         /\ \E id \in DOMAIN networks : ~out[id]
         /\ \A id \in DOMAIN networks : r.calls[id] = 1

(* ====================================================================== *)
(* Network.Allocate with a configuration: a requested address and a       *)
(* requested MAC address.  simpleBridgeDriver.Plug passes none.           *)
(* ====================================================================== *)

\* No address: what net.ParseIP gives for a text that is none.
NilIP == -1

\* The texts of RequestedIP and RequestedMac: "" is an unset option.
IPTexts == {"", "bogus"} \cup {ToString(a) : a \in BridgeSubnet}
MacTexts == {"", "bogus", "02:42:0a:00:00:07"}
AllocateConfs == [RequestedIP : IPTexts, RequestedMac : MacTexts]

\* net.ParseIP and net.ParseMAC.
ParseIP(text) ==
    IF \E a \in BridgeSubnet : ToString(a) = text
    THEN CHOOSE a \in BridgeSubnet : ToString(a) = text
    ELSE NilIP
ParseMAC(text) ==
    IF text = "02:42:0a:00:00:07" THEN [err |-> "", mac |-> text]
    ELSE [err |-> "InvalidRequestedMAC", mac |-> ""]

\* ipallocator.RequestIP(network, ip): for no address any free one of the
\* range, for a given address that address when it is free.
RequestIPResults(a, ip) ==
    IF ip = NilIP
    THEN IF RequestAnyIP(a) = {} THEN {[err |-> "AddressExhausted", ip |-> NilIP]}
         ELSE {[err |-> "", ip |-> free] : free \in RequestAnyIP(a)}
    ELSE IF ip \in a.allocated THEN {[err |-> "AddressInUse", ip |-> NilIP]}
         ELSE {[err |-> "", ip |-> ip]}

\* Network.Allocate(id, conf): the address is requested first, the MAC is
\* parsed or generated next, the entry is set last.
NetworkAllocateResults(bnet, id, conf) ==
    {LET taken == [bnet EXCEPT !.allocated = @ \cup {rq.ip}] IN
     IF rq.err # "" THEN [err |-> rq.err, bridge |-> bnet, ip |-> NilIP]
     ELSE IF conf.RequestedMac # "" /\ ParseMAC(conf.RequestedMac).err # ""
       THEN [err |-> ParseMAC(conf.RequestedMac).err, bridge |-> taken, ip |-> NilIP]
     ELSE [err |-> "", ip |-> rq.ip,
           bridge |-> [taken EXCEPT !.ifaces = With(@, id, rq.ip), !.plugged = @ \cup {id}]] :
       rq \in RequestIPResults(bnet, ParseIP(conf.RequestedIP))}

NetworkAllocate(id, conf) ==
    /\ bridge.present
    /\ \E r \in NetworkAllocateResults(bridge, id, conf) : bridge' = r.bridge
    /\ UNCHANGED <<drivers, networks, persisted, bridgeNets, containers, phase, threads, host, calls>>

\* Network.Release(id).
NetworkRelease(id) ==
    /\ bridge.present
    /\ bridge' = ReleaseResult(bridge, id).bridge
    /\ UNCHANGED <<drivers, networks, persisted, bridgeNets, containers, phase, threads, host, calls>>

AllocateNext ==
    \/ \E id \in EndpointIds, conf \in AllocateConfs : NetworkAllocate(id, conf)
    \/ \E id \in EndpointIds : NetworkRelease(id)

SpecAllocate == AllocInit /\ [][AllocateNext]_vars

\* A requested address or MAC address that is set and does not parse.
MalformedIP(conf) == conf.RequestedIP # "" /\ ParseIP(conf.RequestedIP) = NilIP
MalformedMAC(conf) == conf.RequestedMac # "" /\ ParseMAC(conf.RequestedMac).err # ""

\* C31 as stated: an Allocate with a malformed requested address fails with
\* InvalidRequestedAddress and allocates nothing; with a malformed requested
\* MAC address it fails with InvalidRequestedMAC; with no address requested
\* and none free it fails with AddressExhausted.
C31_AllocateErrors ==
    bridge.present =>
      \A id \in EndpointIds, conf \in AllocateConfs :
        \A r \in NetworkAllocateResults(bridge, id, conf) :
          /\ MalformedIP(conf) => (r.err = "InvalidRequestedAddress" /\ r.bridge = bridge)
          /\ (~MalformedIP(conf) /\ MalformedMAC(conf) /\ RequestAnyIP(bridge) # {})
               => r.err \in {"InvalidRequestedMAC", "AddressInUse"}
          /\ (conf.RequestedIP = "" /\ RequestAnyIP(bridge) = {}) => r.err = "AddressExhausted"

(* ---------------------------------------------------------------------- *)

\* The addresses the runtime table records.
TableAddrs(bnet) == {bnet.ifaces[id] : id \in DOMAIN bnet.ifaces}

\* C39 as stated: after any sequence of Allocate and Release calls the
\* addresses marked allocated are the bridge reservation and the addresses
\* the runtime table records, and every address the table records is marked
\* allocated.
C39_TableMatchesAllocator ==
    bridge.present =>
      /\ bridge.allocated = {NetBase} \cup TableAddrs(bridge)
      /\ TableAddrs(bridge) \subseteq bridge.allocated

(* ---------------------------------------------------------------------- *)

\* C40 as stated: an Allocate that returns an error leaves the allocator and
\* the runtime table as they were before the call.
C40_FailedAllocateChangesNothing ==
    bridge.present =>
      \A id \in EndpointIds, conf \in AllocateConfs :
        \A r \in NetworkAllocateResults(bridge, id, conf) :
          r.err # "" =>
            /\ r.bridge.allocated = bridge.allocated
            /\ r.bridge.ifaces = bridge.ifaces

(* ====================================================================== *)
(* Network.State: the bridge driver's configuration across a restart.     *)
(* In this specification host.links holds the host's bridge interfaces by *)
(* name, each with its IPv4 address, and the bridge driver's table holds  *)
(* the configuration of each network.                                     *)
(* ====================================================================== *)

\* The model follows NetworkCreate while the host has fewer bridge interfaces.
MaxLinks == 2

NoLinks == [k \in {} |-> NetBase]

\* The labels of a bridge network: "" is an unset option.
BridgeLabels == [BridgeIface : {"", "br0"}, BridgeIP : {""} \cup {ToString(a) : a \in BridgeIPs}]

\* findFreeBridgeName: the first of docker0 .. docker9 the host has no
\* interface for; "" when there is none.
BridgeNames == [i \in 1..10 |-> "docker" \o ToString(i - 1)]
findFreeBridgeName(links) ==
    IF \E i \in DOMAIN BridgeNames : BridgeNames[i] \notin DOMAIN links
    THEN BridgeNames[CHOOSE i \in DOMAIN BridgeNames :
                       /\ BridgeNames[i] \notin DOMAIN links
                       /\ \A j \in 1..(i - 1) : BridgeNames[j] \in DOMAIN links]
    ELSE ""

\* findFreeIp: the first range of addrs that overlaps no route of the host,
\* each bridge interface having the route to its subnet.
addrs == <<1, 2>>
findFreeIp(links) ==
    LET Clear(a) == \A l \in DOMAIN links : links[l] # a IN
    IF SelectSeq(addrs, Clear) = << >> THEN NilIP ELSE Head(SelectSeq(addrs, Clear))

\* simplebridge.NewNetwork: the bridge's name and address resolved from the
\* labels and, for what they leave open, from the host.
NewNetworkFrom(labels, links) ==
    LET name == IF labels.BridgeIface = "" THEN findFreeBridgeName(links) ELSE labels.BridgeIface
        ip   == IF labels.BridgeIP # "" THEN ParseIP(labels.BridgeIP) ELSE findFreeIp(links)
    IN  IF name = "" THEN [err |-> "NoFreeBridgeName", net |-> << >>]
        ELSE IF ip = NilIP THEN [err |-> "NoFreeAddressRange", net |-> << >>]
        ELSE [err |-> "", net |-> [bridgeIface |-> name, bridgeIPv4Addr |-> ip]]

\* Network.ToJson and simplebridge.FromJson.
ToJson(n) == <<n.bridgeIface, ToString(n.bridgeIPv4Addr)>>
FromJson(state) == [bridgeIface |-> state[1], bridgeIPv4Addr |-> ParseIP(state[2])]

\* Network.Setup for the interface of n on a host with the interfaces links;
\* ok: the host lets a missing interface be created.
LinkSetup(links, n, ok) ==
    LET h == [NoHost EXCEPT !.iface =
                IF n.bridgeIface \in DOMAIN links
                THEN [present |-> TRUE, v4 |-> links[n.bridgeIface], v6 |-> {}]
                ELSE NoIface]
        cfg == [bridgeIPv4Addr |-> n.bridgeIPv4Addr, fixedIPv4Subnet |-> FALSE,
                enableIPv6 |-> FALSE, enableIPTables |-> FALSE, enableICC |-> TRUE,
                enableIPMasq |-> FALSE, enableIPForward |-> FALSE]
        r == SimplebridgeSetup(h, cfg, IF ok THEN "none" ELSE "CreateBridge")
    IN  [err |-> r.err,
         links |-> IF r.host.iface.present
                   THEN With(links, n.bridgeIface, r.host.iface.v4) ELSE links]

\* simpleBridgeDriver.Setup that resolves the configuration from the labels
\* whatever State holds.
simpleBridgeDriverSetup_fresh(links, table, network, ok) ==
    LET built == NewNetworkFrom(network.Labels, links)
        su == LinkSetup(links, built.net, ok)
    IN  IF built.err # ""
        THEN [err |-> built.err, links |-> links, table |-> table, net |-> network]
        ELSE IF su.err # ""
        THEN [err |-> su.err, links |-> su.links, table |-> table, net |-> network]
        ELSE [err |-> "", links |-> su.links,
              table |-> With(table, network.ID, built.net),
              net |-> [network EXCEPT !.State = With(@, "simplebridge", ToJson(built.net))]]

\* simpleBridgeDriver.Setup: the configuration comes from State when State
\* holds the driver's entry and from the labels when it does not.
simpleBridgeDriverSetup(links, table, network, ok) ==
    LET found == "simplebridge" \in DOMAIN network.State
        built == IF found THEN [err |-> "", net |-> FromJson(network.State["simplebridge"])]
                 ELSE NewNetworkFrom(network.Labels, links)
        su == LinkSetup(links, built.net, ok)
    IN  IF built.err # ""
        THEN [err |-> built.err, links |-> links, table |-> table, net |-> network]
        ELSE IF su.err # ""
        THEN [err |-> su.err, links |-> su.links, table |-> table, net |-> network]
        ELSE [err |-> "", links |-> su.links,
              table |-> With(table, network.ID, built.net),
              net |-> [network EXCEPT !.State = With(@, "simplebridge", ToJson(built.net))]]

\* NetworkCreate of a bridge network with a generated name.
StateCreate(labels, env) ==
    /\ phase = "running"
    /\ Cardinality(DOMAIN networks) < MaxNets
    /\ Cardinality(DOMAIN host.links) < MaxLinks
    /\ \E i \in 1..MaxIds : IdOf(i) \notin DOMAIN networks \cup DOMAIN persisted
    /\ \E name \in NameFor(networks, "") :
         LET net == [ID |-> RandomID(DOMAIN networks \cup DOMAIN persisted), Name |-> name,
                     Driver |-> "simplebridge", Labels |-> labels, State |-> NoLabels]
         IN  \E su \in {simpleBridgeDriverSetup(host.links, bridgeNets, net, env.drv)} :
             \E ad \in {Add(networks, persisted, su.net, env.io)} :
               /\ host' = [host EXCEPT !.links = su.links]
               /\ bridgeNets' = su.table
               /\ networks' = IF su.err = "" THEN ad.reg ELSE networks
               /\ persisted' = IF su.err = "" THEN ad.store ELSE persisted
    /\ UNCHANGED <<drivers, containers, phase, threads, bridge, calls>>

\* Restore's loop over the files ids on a host with the interfaces links;
\* the error of Add is dropped.  (The round's Setup is bound by a quantifier,
\* which has it evaluated once.)
RECURSIVE RestoreStateFrom(_, _, _, _, _, _)
RestoreStateFrom(ids, out, links, reg, store, table) ==
    IF ids = << >>
    THEN [err |-> "", links |-> links, reg |-> reg, store |-> store, table |-> table]
    ELSE
      LET id == Head(ids) IN
      CHOOSE r \in
        {IF su.err # ""
         THEN [err |-> su.err, links |-> su.links, reg |-> reg, store |-> store,
               table |-> su.table]
         ELSE RestoreStateFrom(Tail(ids), out, su.links,
                               Add(reg, store, su.net, out[id].io).reg,
                               Add(reg, store, su.net, out[id].io).store, su.table) :
           su \in {simpleBridgeDriverSetup(links, table, store[id], out[id].drv)}} : TRUE

RestoreStateResult(out) ==
    RestoreStateFrom(ReadDir(persisted), out, host.links, networks, persisted, bridgeNets)

\* NetworkRegistry.Restore at startup.
RestoreState(out) ==
    /\ phase = "starting"
    /\ \E r \in {RestoreStateResult(out)} :
         /\ host' = [host EXCEPT !.links = r.links]
         /\ networks' = r.reg
         /\ persisted' = r.store
         /\ bridgeNets' = r.table
         /\ phase' = IF r.err = "" THEN "running" ELSE "failed"
    /\ UNCHANGED <<drivers, containers, threads, bridge, calls>>

StateInit ==
    /\ drivers = StartDrivers
    /\ networks = [k \in {} |-> NilNetwork]
    /\ persisted = [k \in {} |-> NilNetwork]
    /\ bridgeNets = [k \in {} |-> NewBridgeNet]
    /\ containers = [c \in Containers |-> [running |-> FALSE, Endpoints |-> << >>]]
    /\ phase = "running"
    /\ NoThreads
    /\ NoCalls
    /\ host = [links |-> NoLinks]
    /\ bridge = NoBridge

StateNext ==
    \/ \E labels \in BridgeLabels, env \in Envs : StateCreate(labels, env)
    \/ Restart
    \/ \E out \in [DOMAIN persisted -> Envs] : RestoreState(out)

SpecState == StateInit /\ [][StateNext]_vars

Octets == (0..MaxOctet) \cup {10, 255}
IPv4s == [1..4 -> Octets]

\* copy(dst[from:], src): as many bytes as both hold, the rest of dst as it was.
Copy(dst, from, src) ==
    [i \in 1..Len(dst) |->
       IF i > from /\ i - from <= Len(src) THEN src[i - from] ELSE dst[i]]

\* A generateMacAddr that leaves the address out.
generateMacAddr_noCopy(ip) ==
    [[i \in 1..6 |-> 0] EXCEPT ![1] = 2, ![2] = 66]

\* generateMacAddr: hw[0] = 0x02, hw[1] = 0x42, copy(hw[2:], ip.To4()).
generateMacAddr(ip) ==
    Copy([[i \in 1..6 |-> 0] EXCEPT ![1] = 2, ![2] = 66], 2, ip)

\* net.HardwareAddr.String: two lower-case hexadecimal digits for each byte,
\* colons between them.
HexDigits == <<"0", "1", "2", "3", "4", "5", "6", "7", "8", "9", "a", "b", "c", "d", "e", "f">>
Hex(b) == HexDigits[(b \div 16) + 1] \o HexDigits[(b % 16) + 1]
MacString(hw) ==
    Hex(hw[1]) \o ":" \o Hex(hw[2]) \o ":" \o Hex(hw[3]) \o ":" \o
    Hex(hw[4]) \o ":" \o Hex(hw[5]) \o ":" \o Hex(hw[6])

\* Network.Allocate with no requested MAC: mac = generateMacAddr(ip), returned
\* as MacAddress: mac.String().
AllocateMac(ip) ==
    /\ probe' = [fn |-> "generateMacAddr", in |-> ip,
                 out |-> MacString(generateMacAddr(ip))]
    /\ UNCHANGED <<drivers, networks, persisted, bridgeNets, containers, phase, threads, wiring>>

MacNext == \E ip \in IPv4s : AllocateMac(ip)

SpecMac == Init /\ [][MacNext]_vars

Validated(n, fail) == SimplebridgeSetup(host, n, fail).err \in {"", "FirewallError"}

\* C28 as stated: in a Setup with the firewall enabled, on a host that holds
\* a management chain, the chain is removed before any firewall rule is
\* inserted.
C28_RemovalBeforeRules ==
    \A n \in BridgeConfigs, fail \in FailPoints :
      (n.enableIPTables /\ Validated(n, fail) /\ host.chains # {}) =>
        LET cmds == FirewallCommands(host, n, fail) IN
        \A i \in DOMAIN cmds :
          cmds[i].op = "Insert" =>
            \E j \in 1..(i - 1) : cmds[j].op = "RemoveExistingChain"

(* ---------------------------------------------------------------------- *)

\* C29 as stated: a management chain that Setup creates, in the nat or in
\* the filter table, where the host holds a chain of that name, is created
\* after that chain was removed from the table in this same Setup.
C29_ChainCreatedAfterRemoval ==
    \A n \in BridgeConfigs, fail \in FailPoints :
      (n.enableIPTables /\ Validated(n, fail)) =>
        LET cmds == FirewallCommands(host, n, fail) IN
        \A i \in DOMAIN cmds :
          (cmds[i].op = "NewChain" /\ cmds[i].arg \in host.chains) =>
            \E j \in 1..(i - 1) :
              cmds[j].op = "RemoveExistingChain" /\ cmds[j].arg = cmds[i].arg

(* ---------------------------------------------------------------------- *)

\* C30: a Setup with the firewall enabled that succeeds leaves exactly one of
\* the accept and the drop forward rule on the host, the accept rule when
\* inter-container communication is enabled and the drop rule when it is
\* not, whichever of the two an earlier Setup had left.
C30_OneInterContainerRule ==
    \A n \in BridgeConfigs, fail \in FailPoints :
      LET r == SimplebridgeSetup(host, n, fail) IN
      (n.enableIPTables /\ r.err = "") =>
        /\ r.host.rules["accept"] = (IF n.enableICC THEN 1 ELSE 0)
        /\ r.host.rules["drop"] = (IF n.enableICC THEN 0 ELSE 1)

\* An earlier Setup left the accept rule and its chains; a Setup with
\* inter-container communication disabled succeeds and leaves the drop rule.
C30_Witness ==
    /\ host.rules["accept"] = 1
    /\ host.chains # {}
    /\ \E n \in BridgeConfigs :
         LET r == SimplebridgeSetup(host, n, "none") IN
         /\ n.enableIPTables /\ ~n.enableICC /\ r.err = ""
         /\ r.host.rules["drop"] = 1 /\ r.host.rules["accept"] = 0

(* ====================================================================== *)
(* netDriver: the adapter that forwards a driver call to a plugin.  src   *)
(* holds two revisions of it: the one with Setup (daemon package, next to *)
(* the registry) and an earlier one whose Setup is still called Create    *)
(* and which registers itself with the plugin repository.                 *)
(* ====================================================================== *)

Revisions == {"Setup", "Create"}
Methods == {"Setup", "Destroy", "Plug", "Unplug"}

\* What driver.plugin.Call can hand back: an error or none, a response body
\* or none (always one without error), and whether the body decodes.
TransportErrors == {"connection refused", "status 500"}
TransportOutcomes ==
    {t \in [err : TransportErrors \cup {""}, body : BOOLEAN, decodable : BOOLEAN] :
       /\ t.err = "" => t.body
       /\ ~t.body => ~t.decodable
       /\ t.err # "" => ~t.decodable}

\* The arguments of the one driver.plugin.Call a method makes.
Request(rev, method, net, ep) ==
    IF rev = "Setup"
    THEN CASE method = "Setup"   -> <<"POST", "">>
           [] method = "Destroy" -> <<"DELETE", net>>
           [] method = "Plug"    -> <<"POST", net \o "/">>
           [] method = "Unplug"  -> <<"DELETE", net \o "/" \o ep>>
    ELSE CASE method = "Setup"   -> <<"PUT", "/net/">>
           [] method = "Destroy" -> <<"DELETE", "/net/" \o net>>
           [] method = "Plug"    -> <<"POST", "/net/" \o net \o "/">>
           [] method = "Unplug"  -> <<"DELETE", "/net/" \o net \o "/" \o ep>>

\* What Plug returns after a successful call: the decoder's error.
Decoded(method, t) == IF method = "Plug" /\ ~t.decodable THEN "DecodeError" ELSE ""

\* The revision with Setup: the error is looked at first and returned; the
\* body is closed only on the way without error.
netDriver(method, net, ep, t) ==
    [calls  |-> <<Request("Setup", method, net, ep)>>,
     panic  |-> FALSE,
     ret    |-> IF t.err # "" THEN t.err ELSE Decoded(method, t),
     closed |-> t.err = ""]

\* The revision with Create: defer reader.Close() comes before the error is
\* looked at, and fails on the nil reader of a call that handed back no body.
netDriverCreate(method, net, ep, t) ==
    [calls  |-> <<Request("Create", method, net, ep)>>,
     panic  |-> ~t.body,
     ret    |-> IF ~t.body THEN "" ELSE IF t.err # "" THEN t.err ELSE Decoded(method, t),
     closed |-> t.body]

\* A driver method is called on a network (and an endpoint) with the plugin
\* answering in one of the ways it can.
RemoteCall(rev, method, net, ep, t) ==
    /\ probe' = [fn |-> method,
                 in |-> [rev |-> rev, net |-> net, ep |-> ep, t |-> t],
                 out |-> IF rev = "Setup" THEN netDriver(method, net, ep, t)
                         ELSE netDriverCreate(method, net, ep, t)]
    /\ UNCHANGED <<drivers, networks, persisted, bridgeNets, containers, phase, threads, wiring>>

RemoteNext ==
    \E rev \in Revisions, method \in Methods, i \in 1..MaxIds, t \in TransportOutcomes :
      \E ep \in (IF method \in {"Plug", "Unplug"} THEN EndpointIds ELSE {""}) :
        RemoteCall(rev, method, IdOf(i), ep, t)

SpecRemote == Init /\ [][RemoteNext]_vars

\* C26 as stated: each of Setup, Destroy, Plug and Unplug of the adapter makes
\* exactly one transport call, with no retry, and when that call returns an
\* error the method returns this very error.
C26_OneCallErrorVerbatim ==
    probe.fn \in Methods =>
      /\ Len(probe.out.calls) = 1
      /\ probe.in.t.err # "" => (~probe.out.panic /\ probe.out.ret = probe.in.t.err)

(* ---------------------------------------------------------------------- *)

\* C27 as stated: whatever the transport call gives (success, an error, a
\* body that does not decode), the method returns normally and a body the
\* transport handed back is closed when the method returns.
C27_BodiesClosed ==
    probe.fn \in Methods =>
      /\ ~probe.out.panic
      /\ probe.in.t.body => probe.out.closed

(* ====================================================================== *)
(* NewNetwork: the bridge configuration read from the network's labels.   *)
(* ====================================================================== *)

\* At most this many labels are set on one network.
MaxLabels == 2

\* The boolean options NewNetwork reads, each with the default it passes.
OptionDefaults ==
    [EnableIPv6                  |-> FALSE,
     EnableIptables              |-> FALSE,
     InterContainerCommunication |-> TRUE,
     EnableIpMasq                |-> FALSE,
     EnableIpForward             |-> FALSE,
     EnableDefaultGateway        |-> FALSE]
BoolOptions == DOMAIN OptionDefaults

LabelValues == {"true", "false", "1", "yes"}
Labels ==
    UNION {[names -> LabelValues] :
             names \in {o \in SUBSET BoolOptions : Cardinality(o) <= MaxLabels}}

\* strconv.ParseBool: the value and whether the text is one it accepts.
ParseBool(value) ==
    CASE value \in {"1", "t", "T", "TRUE", "true", "True"}    -> [val |-> TRUE, err |-> FALSE]
      [] value \in {"0", "f", "F", "FALSE", "false", "False"} -> [val |-> FALSE, err |-> FALSE]
      [] OTHER                                                 -> [val |-> FALSE, err |-> TRUE]

\* config.getBool: the parsed value is returned when the option is found and
\* ParseBool failed, the default in every other case.
getBool(c, name, fedault) ==
    LET found == name \in DOMAIN c
        p == ParseBool(IF found THEN c[name] ELSE "")
    IN  IF found /\ p.err THEN p.val ELSE fedault

\* The boolean fields NewNetwork computes from the labels.
NewNetwork(conf) == [o \in BoolOptions |-> getBool(conf, o, OptionDefaults[o])]

NewNetworkCall(conf) ==
    /\ probe' = [fn |-> "NewNetwork", in |-> conf, out |-> NewNetwork(conf)]
    /\ UNCHANGED <<drivers, networks, persisted, bridgeNets, containers, phase, threads, wiring>>

ConfigNext == \E conf \in Labels : NewNetworkCall(conf)

SpecConfig == Init /\ [][ConfigNext]_vars

\* C25 as stated: a boolean option that is set to a text ParseBool accepts is
\* read as that parsed value; the default is what an option reads as when it
\* is unset or its text is not accepted.
C25_BoolOptionRead ==
    probe.fn = "NewNetwork" =>
      \A o \in BoolOptions :
        LET set == o \in DOMAIN probe.in
            parsable == set /\ ~ParseBool(probe.in[o]).err
        IN  /\ parsable => probe.out[o] = ParseBool(probe.in[o]).val
            /\ ~parsable => probe.out[o] = OptionDefaults[o]

(* ====================================================================== *)
(* createBridgeIface: whether the bridge's MAC address is set depends on  *)
(* the kernel version.                                                    *)
(* ====================================================================== *)

\* The largest second number of a kernel version.
MaxMajor == 10

\* kernel.GetKernelVersion: the versions Kernel.Major.Minor it can report.
KernelVersions == [Kernel : 2..4, Major : 0..MaxMajor, Minor : 0..3]
NoVersion == [Kernel |-> 0, Major |-> 0, Minor |-> 0]

\* createBridgeIface: the setBridgeMacAddr it passes to netlink.CreateBridge;
\* failed: GetKernelVersion returned an error.
setBridgeMacAddr(kv, failed) == ~failed /\ (kv.Kernel >= 3 /\ kv.Major >= 3)

createBridgeIface(kv, failed) ==
    /\ probe' = [fn |-> "createBridgeIface", in |-> [kv |-> kv, failed |-> failed],
                 out |-> setBridgeMacAddr(kv, failed)]
    /\ UNCHANGED <<drivers, networks, persisted, bridgeNets, containers, phase, threads, wiring>>

KernelNext ==
    \/ \E kv \in KernelVersions : createBridgeIface(kv, FALSE)
    \/ createBridgeIface(NoVersion, TRUE)

SpecKernel == Init /\ [][KernelNext]_vars

\* C36 as stated: the bridge MAC address is asked to be set for every kernel
\* version newer than 3.3 (3.10, 4.0, 4.1) and for none older than 3.3 (2.6,
\* 3.2).
C36_MacOnNewKernels ==
    (probe.fn = "createBridgeIface" /\ ~probe.in.failed) =>
      LET kv == probe.in.kv IN
      /\ (kv.Kernel > 3 \/ (kv.Kernel = 3 /\ kv.Major > 3)) => probe.out
      /\ (kv.Kernel < 3 \/ (kv.Kernel = 3 /\ kv.Major < 3)) => ~probe.out

====
